---------------------------- MODULE Spec2Model ----------------------------
(***************************************************************************)
(* A model of the uvd-x402-sdk: the x402 envelope codec (utils/x402.ts),   *)
(* the chain-identifier tables (types, chains), the NEAR Base58 codec and  *)
(* the per-network payment builders (the providers directory).            *)
(*                                                                         *)
(* JavaScript strings are sequences of UTF-16 code units (numbers);        *)
(* U("text") gives the code units of an ASCII literal.  Other JavaScript   *)
(* values are tagged records, see Str, Num, Obj, Arr below.                *)
(***************************************************************************)
EXTENDS Integers, Sequences, FiniteSets, TLC

VARIABLES
  fn,      \* name of the SDK function called last ("" before any call)
  args,    \* the arguments of that call
  ret,     \* what the call returned, or Throw(..) when it threw
  header,  \* the x402 header object the caller holds (Undefined: none)
  wire,    \* the header value in transport (Undefined: none)
  adapter, \* the fields of the wallet adapter (provider) in use
  calls,   \* the RPC and wallet requests the last call issued, in order
  clock,   \* Date.now(): milliseconds since the epoch
  chains,  \* SUPPORTED_CHAINS, where a constructor may have rewritten it
  ethereum \* window.ethereum: the wallet's selected account and chain

vars == <<fn, args, ret, header, wire, adapter, calls, clock, chains, ethereum>>

---------------------------------------------------------------------------
(* JavaScript strings *)

\* The printable ASCII characters in code order: 32 (space) to 95 (_), and
\* 97 (a) to 126 (~).  (Code 96 cannot be written in a string here.)
PrintableLow ==
  " !\"#$%&'()*+,-./0123456789:;<=>?@ABCDEFGHIJKLMNOPQRSTUVWXYZ[\\]^_"

PrintableHigh == "abcdefghijklmnopqrstuvwxyz{|}~"

\* Code unit of a one-character ASCII string.
Ord(c) ==
  IF \E i \in 1..Len(PrintableLow) : SubSeq(PrintableLow, i, i) = c
  THEN 31 + (CHOOSE i \in 1..Len(PrintableLow) : SubSeq(PrintableLow, i, i) = c)
  ELSE 96 + (CHOOSE i \in 1..Len(PrintableHigh) : SubSeq(PrintableHigh, i, i) = c)

\* Code units of an ASCII literal.
U(s) == [i \in 1..Len(s) |-> Ord(SubSeq(s, i, i))]

COLON == 58

\* String.prototype.includes for a single code unit.
includes(s, c) == \E i \in 1..Len(s) : s[i] = c

\* String.prototype.toLowerCase on the Basic Latin and Latin-1 letters.
lowerUnit(c) ==
  IF (c >= 65 /\ c <= 90) \/ (c >= 192 /\ c <= 222 /\ c # 215) THEN c + 32 ELSE c

toLowerCase(s) == [i \in 1..Len(s) |-> lowerUnit(s[i])]

\* String.prototype.startsWith.
startsWith(s, p) == Len(s) >= Len(p) /\ SubSeq(s, 1, Len(p)) = p

isDigit(c) == c >= 48 /\ c <= 57

\* Number -> decimal digits, as template literals and toString() print a
\* non-negative integer.
RECURSIVE Dec(_)
Dec(n) == IF n < 10 THEN <<48 + n>> ELSE Dec(n \div 10) \o <<48 + (n % 10)>>

\* parseInt(digits, 10) on a string of decimal digits.
RECURSIVE parseInt(_)
parseInt(s) ==
  IF Len(s) = 0 THEN 0
  ELSE parseInt(SubSeq(s, 1, Len(s) - 1)) * 10 + (s[Len(s)] - 48)

\* String.prototype.split(':'): the pieces between the colons.
RECURSIVE split(_)
split(s) ==
  IF ~includes(s, COLON) THEN <<s>>
  ELSE LET i == CHOOSE k \in 1..Len(s) :
                  s[k] = COLON /\ \A j \in 1..(k - 1) : s[j] # COLON
       IN <<SubSeq(s, 1, i - 1)>> \o split(SubSeq(s, i + 1, Len(s)))

---------------------------------------------------------------------------
(* JavaScript values *)

Str(s) == [t |-> "string", v |-> s]
Num(n) == [t |-> "number", v |-> n]
Obj(fields) == [t |-> "object", v |-> fields]   \* fields: <<key, value>> pairs in insertion order
Arr(items) == [t |-> "array", v |-> items]
Null == [t |-> "null"]
Undefined == [t |-> "undefined"]
Bool(b) == [t |-> "boolean", v |-> b]
Throw(name) == [t |-> "throw", v |-> name]

\* The typeof operator.
TypeOf(x) ==
  CASE x.t \in {"object", "array", "null"} -> "object"
    [] OTHER -> x.t

IsThrow(x) == x.t = "throw"

\* ToBoolean.
Truthy(x) ==
  CASE x.t = "undefined" -> FALSE
    [] x.t = "null" -> FALSE
    [] x.t = "string" -> Len(x.v) > 0
    [] x.t = "number" -> x.v # 0
    [] x.t = "boolean" -> x.v
    [] OTHER -> TRUE

\* Own property lookup in a map given as <<key, value>> pairs; a later pair
\* with the same key replaces an earlier one, as in an object literal and in
\* Object.fromEntries.
Has(pairs, key) == \E i \in 1..Len(pairs) : pairs[i][1] = key

Get(pairs, key) ==
  LET i == CHOOSE k \in 1..Len(pairs) :
             pairs[k][1] = key /\ \A j \in (k + 1)..Len(pairs) : pairs[j][1] # key
  IN pairs[i][2]

\* obj[key] on a value of type object.
Field(x, key) ==
  IF x.t = "object" /\ Has(x.v, key) THEN Get(x.v, key) ELSE Undefined

---------------------------------------------------------------------------
(* Chain tables *)

\* types: CAIP2_IDENTIFIERS, in source order.
CAIP2_IDENTIFIERS ==
  << <<U("base"), U("eip155:8453")>>,
     <<U("ethereum"), U("eip155:1")>>,
     <<U("polygon"), U("eip155:137")>>,
     <<U("arbitrum"), U("eip155:42161")>>,
     <<U("optimism"), U("eip155:10")>>,
     <<U("avalanche"), U("eip155:43114")>>,
     <<U("celo"), U("eip155:42220")>>,
     <<U("hyperevm"), U("eip155:999")>>,
     <<U("unichain"), U("eip155:130")>>,
     <<U("monad"), U("eip155:143")>>,
     <<U("scroll"), U("eip155:534352")>>,
     <<U("skale"), U("eip155:1187947933")>>,
     <<U("skale-testnet"), U("eip155:324705682")>>,
     <<U("solana"), U("solana:5eykt4UsFv8P8NJdTREpY1vzqKqZKvdp")>>,
     <<U("fogo"), U("svm:fogo")>>,
     <<U("stellar"), U("stellar:pubnet")>>,
     <<U("near"), U("near:mainnet")>>,
     <<U("algorand"), U("algorand:mainnet")>>,
     <<U("algorand-testnet"), U("algorand:testnet")>>,
     <<U("sui"), U("sui:mainnet")>>,
     <<U("sui-testnet"), U("sui:testnet")>> >>

\* types: CAIP2_TO_CHAIN = Object.fromEntries(entries.map(([k, v]) => [v, k])).
CAIP2_TO_CHAIN ==
  [i \in 1..Len(CAIP2_IDENTIFIERS) |->
     <<CAIP2_IDENTIFIERS[i][2], CAIP2_IDENTIFIERS[i][1]>>]

\* chains: one ChainConfig of SUPPORTED_CHAINS (the fields the codec reads).
ChainConfig(name, chainId, networkType) ==
  [name |-> U(name), chainId |-> chainId, networkType |-> U(networkType)]

\* chains: SUPPORTED_CHAINS, in source order.
SUPPORTED_CHAINS ==
  << <<U("base"), ChainConfig("base", 8453, "evm")>>,
     <<U("avalanche"), ChainConfig("avalanche", 43114, "evm")>>,
     <<U("ethereum"), ChainConfig("ethereum", 1, "evm")>>,
     <<U("polygon"), ChainConfig("polygon", 137, "evm")>>,
     <<U("arbitrum"), ChainConfig("arbitrum", 42161, "evm")>>,
     <<U("optimism"), ChainConfig("optimism", 10, "evm")>>,
     <<U("celo"), ChainConfig("celo", 42220, "evm")>>,
     <<U("hyperevm"), ChainConfig("hyperevm", 999, "evm")>>,
     <<U("unichain"), ChainConfig("unichain", 130, "evm")>>,
     <<U("monad"), ChainConfig("monad", 143, "evm")>>,
     <<U("solana"), ChainConfig("solana", 0, "svm")>>,
     <<U("fogo"), ChainConfig("fogo", 0, "svm")>>,
     <<U("stellar"), ChainConfig("stellar", 0, "stellar")>>,
     <<U("near"), ChainConfig("near", 0, "near")>>,
     <<U("algorand"), ChainConfig("algorand", 0, "algorand")>>,
     <<U("algorand-testnet"), ChainConfig("algorand-testnet", 0, "algorand")>> >>

\* chains: getChainByName, SUPPORTED_CHAINS[name.toLowerCase()].
getChainByName(name) ==
  IF Has(SUPPORTED_CHAINS, toLowerCase(name))
  THEN Get(SUPPORTED_CHAINS, toLowerCase(name))
  ELSE Undefined


---------------------------------------------------------------------------
(* utils/x402.ts *)

x402VersionKey == U("x402Version")
schemeKey == U("scheme")
networkKey == U("network")
payloadKey == U("payload")
acceptsKey == U("accepts")
exact == U("exact")
eip155Prefix == U("eip155:")
evm == U("evm")

\* detectX402Version with any truthy accepts taken as the v2 indicator.
detectX402VersionAnyAccepts(data) ==
  IF TypeOf(data) # "object" \/ data.t = "null" THEN 1
  ELSE IF Field(data, x402VersionKey) = Num(2) THEN 2
  ELSE IF Truthy(Field(data, acceptsKey)) THEN 2
  ELSE IF Field(data, networkKey).t = "string"
          /\ includes(Field(data, networkKey).v, COLON) THEN 2
  ELSE 1

detectX402Version(data) ==
  IF TypeOf(data) # "object" \/ data.t = "null" THEN 1
  ELSE IF Field(data, x402VersionKey) = Num(2) THEN 2
  ELSE IF Truthy(Field(data, acceptsKey)) /\ Field(data, acceptsKey).t = "array" THEN 2
  ELSE IF Field(data, networkKey).t = "string"
          /\ includes(Field(data, networkKey).v, COLON) THEN 2
  ELSE 1

\* chainToCAIP2 without the table lookup: built from the chain config only.
chainToCAIP2NoTable(chainName) ==
  LET chain == getChainByName(chainName)
  IN IF chain # Undefined
     THEN IF chain.networkType = evm
          THEN eip155Prefix \o Dec(chain.chainId)
          ELSE chain.networkType \o <<COLON>> \o chainName
     ELSE chainName

chainToCAIP2(chainName) ==
  LET key == toLowerCase(chainName)
      caip2 == IF Has(CAIP2_IDENTIFIERS, key)
               THEN Str(Get(CAIP2_IDENTIFIERS, key)) ELSE Undefined
      chain == getChainByName(chainName)
  IN IF Truthy(caip2) THEN caip2.v
     ELSE IF chain # Undefined
          THEN IF chain.networkType = evm
               THEN eip155Prefix \o Dec(chain.chainId)
               ELSE chain.networkType \o <<COLON>> \o chainName
          ELSE chainName

\* The names of CAIP2_IDENTIFIERS, in iteration order, whose chain config
\* has the given chain id (the loop of caip2ToChain).
ChainsWithId(chainId) ==
  {i \in 1..Len(CAIP2_IDENTIFIERS) :
     LET chain == getChainByName(CAIP2_IDENTIFIERS[i][1])
     IN chain # Undefined /\ chain.chainId = chainId}

\* caip2.match(/^eip155:(\d+)$/)
matchEip155(caip2) ==
  /\ startsWith(caip2, eip155Prefix)
  /\ Len(caip2) > Len(eip155Prefix)
  /\ \A i \in (Len(eip155Prefix) + 1)..Len(caip2) : isDigit(caip2[i])

caip2ToChain(caip2) ==
  LET direct == IF Has(CAIP2_TO_CHAIN, caip2)
                THEN Str(Get(CAIP2_TO_CHAIN, caip2)) ELSE Undefined
      chainId == parseInt(SubSeq(caip2, Len(eip155Prefix) + 1, Len(caip2)))
      parts == split(caip2)
  IN IF Truthy(direct) THEN direct
     ELSE IF matchEip155(caip2) /\ ChainsWithId(chainId) # {}
          THEN LET first == CHOOSE i \in ChainsWithId(chainId) :
                              \A j \in ChainsWithId(chainId) : i <= j
               IN Str(CAIP2_IDENTIFIERS[first][1])
     ELSE IF Len(parts) = 2 /\ getChainByName(parts[2]) # Undefined
          THEN Str(parts[2])
     ELSE Null

isCAIP2Format(network) == includes(network, COLON)


---------------------------------------------------------------------------
(* Callers of the identifier functions: any call, in any order *)

\* One optional property of an object literal.
Prop(key, values) == {<<>>} \cup {<< <<key, x>> >> : x \in values}

anOption ==
  Obj(<< <<networkKey, Str(U("eip155:8453"))>>, <<U("asset"), Str(U("0xA0b8"))>>,
         <<U("amount"), Str(U("1000000"))>> >>)

\* Values handed to detectX402Version: parsed 402 bodies and header values.
DetectInputs ==
  {Null, Undefined, Num(0), Num(2), Bool(TRUE), Str(U("eip155:8453")), Str(U("2")),
   Arr(<<>>), Arr(<<Num(2)>>)}
  \cup {Obj(v \o a \o n) :
          v \in Prop(x402VersionKey, {Num(1), Num(2), Str(U("2"))}),
          a \in Prop(acceptsKey, {Arr(<<>>), Arr(<<anOption>>), Str(U("x")), Null, Obj(<<>>)}),
          n \in Prop(networkKey, {Str(U("base")), Str(U("eip155:8453")), Str(U("")), Num(5)})}

\* The names of the chain registry and of the CAIP-2 table.
RegisteredNames ==
  {CAIP2_IDENTIFIERS[i][1] : i \in 1..Len(CAIP2_IDENTIFIERS)}
  \cup {SUPPORTED_CHAINS[i][1] : i \in 1..Len(SUPPORTED_CHAINS)}

\* Chain names handed to chainToCAIP2.
NameInputs ==
  RegisteredNames
  \cup {U("Base"), U("SOLANA"), U("unknown"), U(""), U("eip155:8453"), U("bsc"),
        U("stellar-testnet")}

\* Identifiers handed to caip2ToChain.
IdInputs ==
  {CAIP2_IDENTIFIERS[i][2] : i \in 1..Len(CAIP2_IDENTIFIERS)}
  \cup {U("eip155:0"), U("eip155:08453"), U("eip155:56"), U("eip155:"), U("eip155:abc"),
        U("EIP155:8453"), U("foo:base"), U("evm:base"), U("svm:solana"), U("near:near"),
        U("x:BASE"), U("solana:mainnet"), U("base"), U("a:b:c"), U(""), U(":"),
        U("stellar:testnet"), U("foo:bar")}

NoEnvelope == header = Undefined /\ wire = Undefined

\* No wallet adapter is in use.
NoAdapter == adapter = [kind |-> "none"] /\ calls = <<>>

\* The time the calls are made at, where no call reads the clock.
NoClock == clock = 0

\* The page's wallet and the chain registry, where no call reads them.
NoWindow == chains = <<>> /\ ethereum = Undefined

InitIds == fn = "" /\ args = <<>> /\ ret = Undefined /\ NoEnvelope /\ NoAdapter /\ NoClock /\ NoWindow

DetectVersion ==
  \E data \in DetectInputs :
    /\ fn' = "detectX402Version"
    /\ args' = <<data>>
    /\ ret' = Num(detectX402Version(data))
    /\ UNCHANGED <<header, wire, adapter, calls, clock, chains, ethereum>>

ChainToCAIP2 ==
  \E chainName \in NameInputs :
    /\ fn' = "chainToCAIP2"
    /\ args' = <<Str(chainName)>>
    /\ ret' = Str(chainToCAIP2(chainName))
    /\ UNCHANGED <<header, wire, adapter, calls, clock, chains, ethereum>>

Caip2ToChain ==
  \E caip2 \in IdInputs :
    /\ fn' = "caip2ToChain"
    /\ args' = <<Str(caip2)>>
    /\ ret' = caip2ToChain(caip2)
    /\ UNCHANGED <<header, wire, adapter, calls, clock, chains, ethereum>>

NextIds == DetectVersion \/ ChainToCAIP2 \/ Caip2ToChain

SpecIds == InitIds /\ [][NextIds]_vars

---------------------------------------------------------------------------
(* JSON.stringify, JSON.parse, btoa and atob, on which encodeX402Header and
   decodeX402Header rest.  Numbers are the integers the payloads carry.   *)

isHighSurrogate(c) == c >= 55296 /\ c <= 56319
isLowSurrogate(c) == c >= 56320 /\ c <= 57343

\* One lowercase hexadecimal digit.
HexDigit(d) == IF d < 10 THEN 48 + d ELSE 87 + d

\* \uXXXX
UnicodeEscape(c) ==
  <<92, 117, HexDigit(c \div 4096), HexDigit((c \div 256) % 16),
    HexDigit((c \div 16) % 16), HexDigit(c % 16)>>

\* QuoteJSONString: what code unit i of s becomes inside the quotes.
EscapeAt(s, i) ==
  LET c == s[i]
  IN IF c = 34 THEN <<92, 34>>                       \* \"
     ELSE IF c = 92 THEN <<92, 92>>                  \* \\
     ELSE IF c = 8 THEN <<92, 98>>                   \* \b
     ELSE IF c = 12 THEN <<92, 102>>                 \* \f
     ELSE IF c = 10 THEN <<92, 110>>                 \* \n
     ELSE IF c = 13 THEN <<92, 114>>                 \* \r
     ELSE IF c = 9 THEN <<92, 116>>                  \* \t
     ELSE IF c < 32 THEN UnicodeEscape(c)
     ELSE IF isHighSurrogate(c) /\ ~(i < Len(s) /\ isLowSurrogate(s[i + 1]))
          THEN UnicodeEscape(c)                      \* lone surrogate
     ELSE IF isLowSurrogate(c) /\ ~(i > 1 /\ isHighSurrogate(s[i - 1]))
          THEN UnicodeEscape(c)                      \* lone surrogate
     ELSE <<c>>

\* The parts one after the other (by halves).
RECURSIVE Concat(_)
Concat(parts) ==
  IF Len(parts) = 0 THEN <<>>
  ELSE IF Len(parts) = 1 THEN parts[1]
  ELSE Concat(SubSeq(parts, 1, Len(parts) \div 2))
       \o Concat(SubSeq(parts, Len(parts) \div 2 + 1, Len(parts)))

\* The parts joined by commas.
RECURSIVE Join(_)
Join(parts) ==
  IF Len(parts) = 0 THEN <<>>
  ELSE IF Len(parts) = 1 THEN parts[1]
  ELSE parts[1] \o <<44>> \o Join(Tail(parts))

QuoteJSONString(s) ==
  <<34>> \o Concat([i \in 1..Len(s) |-> EscapeAt(s, i)]) \o <<34>>

RECURSIVE JSONstringify(_)
JSONstringify(x) ==
  IF x.t = "string" THEN QuoteJSONString(x.v)
  ELSE IF x.t = "number" THEN Dec(x.v)
  ELSE IF x.t = "boolean" THEN (IF x.v THEN U("true") ELSE U("false"))
  ELSE IF x.t = "null" THEN U("null")
  ELSE IF x.t = "array"
       THEN <<91>>
            \o Join([i \in 1..Len(x.v) |->
                       IF x.v[i].t = "undefined" THEN U("null")
                       ELSE JSONstringify(x.v[i])])
            \o <<93>>
  ELSE LET kept == SelectSeq(x.v, LAMBDA f : f[2].t # "undefined")
       IN <<123>>
          \o Join([i \in 1..Len(kept) |->
                     QuoteJSONString(kept[i][1]) \o <<58>> \o JSONstringify(kept[i][2])])
          \o <<125>>

\* Results of the parsing steps: a value and the position after it, or failure.
Fail == [ok |-> FALSE]
Ok(val, pos) == [ok |-> TRUE, val |-> val, pos |-> pos]

RECURSIVE skipWs(_, _)
skipWs(text, i) ==
  IF i <= Len(text) /\ text[i] \in {32, 9, 10, 13} THEN skipWs(text, i + 1) ELSE i

HexVal(c) ==
  IF isDigit(c) THEN c - 48
  ELSE IF c >= 97 /\ c <= 102 THEN c - 87
  ELSE IF c >= 65 /\ c <= 70 THEN c - 55
  ELSE -1

\* The character after a backslash -> the code unit it stands for (-1: none).
Unescape(e) ==
  IF e = 34 \/ e = 92 \/ e = 47 THEN e
  ELSE IF e = 98 THEN 8
  ELSE IF e = 102 THEN 12
  ELSE IF e = 110 THEN 10
  ELSE IF e = 114 THEN 13
  ELSE IF e = 116 THEN 9
  ELSE -1

\* A string literal's characters from position i (after the opening quote).
RECURSIVE parseStringBody(_, _, _)
parseStringBody(text, i, acc) ==
  IF i > Len(text) THEN Fail
  ELSE IF text[i] = 34 THEN Ok(acc, i + 1)
  ELSE IF text[i] < 32 THEN Fail
  ELSE IF text[i] # 92 THEN parseStringBody(text, i + 1, Append(acc, text[i]))
  ELSE IF i + 1 > Len(text) THEN Fail
  ELSE IF text[i + 1] = 117
       THEN IF i + 5 <= Len(text) /\ \A k \in 2..5 : HexVal(text[i + k]) >= 0
            THEN parseStringBody(text, i + 6,
                   Append(acc, HexVal(text[i + 2]) * 4096 + HexVal(text[i + 3]) * 256
                               + HexVal(text[i + 4]) * 16 + HexVal(text[i + 5])))
            ELSE Fail
  ELSE IF Unescape(text[i + 1]) >= 0
       THEN parseStringBody(text, i + 2, Append(acc, Unescape(text[i + 1])))
  ELSE Fail

\* The end of the run of digits starting at i.
RECURSIVE digitsEnd(_, _)
digitsEnd(text, i) ==
  IF i <= Len(text) /\ isDigit(text[i]) THEN digitsEnd(text, i + 1) ELSE i

\* An integer literal at position i: -?(0|[1-9][0-9]*), not followed by a
\* fraction or an exponent.
parseNumber(text, i) ==
  LET neg == i <= Len(text) /\ text[i] = 45
      start == IF neg THEN i + 1 ELSE i
      stop == digitsEnd(text, start)
      n == parseInt(SubSeq(text, start, stop - 1))
  IN IF stop = start THEN Fail
     ELSE IF text[start] = 48 /\ stop > start + 1 THEN Fail
     ELSE IF stop <= Len(text) /\ text[stop] \in {46, 101, 69} THEN Fail
     ELSE Ok(Num(IF neg THEN 0 - n ELSE n), stop)

\* obj[key] = val while parsing: a repeated key keeps its first position.
SetField(fields, key, val) ==
  IF Has(fields, key)
  THEN [i \in 1..Len(fields) |-> IF fields[i][1] = key THEN <<key, val>> ELSE fields[i]]
  ELSE Append(fields, <<key, val>>)

literalAt(text, i, word) ==
  i + Len(word) - 1 <= Len(text) /\ SubSeq(text, i, i + Len(word) - 1) = word

RECURSIVE parseValue(_, _)
RECURSIVE parseMembers(_, _, _)
RECURSIVE parseElements(_, _, _)

\* The members of an object from position i (at a key), acc the ones read.
parseMembers(text, i, acc) ==
  IF i > Len(text) \/ text[i] # 34 THEN Fail
  ELSE LET k == parseStringBody(text, i + 1, <<>>)
       IN IF ~k.ok THEN Fail
          ELSE LET j == skipWs(text, k.pos)
               IN IF j > Len(text) \/ text[j] # 58 THEN Fail
                  ELSE LET val == parseValue(text, skipWs(text, j + 1))
                       IN IF ~val.ok THEN Fail
                          ELSE LET n == skipWs(text, val.pos)
                                   acc2 == SetField(acc, k.val, val.val)
                               IN IF n > Len(text) THEN Fail
                                  ELSE IF text[n] = 125 THEN Ok(Obj(acc2), n + 1)
                                  ELSE IF text[n] = 44
                                       THEN parseMembers(text, skipWs(text, n + 1), acc2)
                                  ELSE Fail

\* The elements of an array from position i (at a value), acc the ones read.
parseElements(text, i, acc) ==
  LET val == parseValue(text, i)
  IN IF ~val.ok THEN Fail
     ELSE LET n == skipWs(text, val.pos)
          IN IF n > Len(text) THEN Fail
             ELSE IF text[n] = 93 THEN Ok(Arr(Append(acc, val.val)), n + 1)
             ELSE IF text[n] = 44
                  THEN parseElements(text, skipWs(text, n + 1), Append(acc, val.val))
             ELSE Fail

\* The JSON value at position i.
parseValue(text, i) ==
  IF i > Len(text) THEN Fail
  ELSE IF text[i] = 34
       THEN LET s == parseStringBody(text, i + 1, <<>>)
            IN IF s.ok THEN Ok(Str(s.val), s.pos) ELSE Fail
  ELSE IF text[i] = 123
       THEN LET j == skipWs(text, i + 1)
            IN IF j <= Len(text) /\ text[j] = 125 THEN Ok(Obj(<<>>), j + 1)
               ELSE parseMembers(text, j, <<>>)
  ELSE IF text[i] = 91
       THEN LET j == skipWs(text, i + 1)
            IN IF j <= Len(text) /\ text[j] = 93 THEN Ok(Arr(<<>>), j + 1)
               ELSE parseElements(text, j, <<>>)
  ELSE IF literalAt(text, i, U("true")) THEN Ok(Bool(TRUE), i + 4)
  ELSE IF literalAt(text, i, U("false")) THEN Ok(Bool(FALSE), i + 5)
  ELSE IF literalAt(text, i, U("null")) THEN Ok(Null, i + 4)
  ELSE parseNumber(text, i)

JSONparse(text) ==
  LET r == parseValue(text, skipWs(text, 1))
  IN IF r.ok /\ skipWs(text, r.pos) = Len(text) + 1
     THEN r.val ELSE Throw("SyntaxError")

B64Alphabet == U("ABCDEFGHIJKLMNOPQRSTUVWXYZabcdefghijklmnopqrstuvwxyz0123456789+/")

\* The base64 character of a six-bit value.
B64Char(n) == B64Alphabet[n + 1]

\* The six-bit value of a base64 character (-1: not in the alphabet).
B64Value(c) ==
  IF c >= 65 /\ c <= 90 THEN c - 65
  ELSE IF c >= 97 /\ c <= 122 THEN c - 71
  ELSE IF isDigit(c) THEN c + 4
  ELSE IF c = 43 THEN 62
  ELSE IF c = 47 THEN 63
  ELSE -1

\* Character k of the base64 text of the bytes b: three bytes to four
\* characters, the last group padded with '='.
base64Encode(b) ==
  LET n == Len(b)
      byte(i) == IF i <= n THEN b[i] ELSE 0
      char(k) ==
        LET i == 3 * ((k - 1) \div 4) + 1
            j == (k - 1) % 4
        IN IF j = 0 THEN B64Char(byte(i) \div 4)
           ELSE IF j = 1 THEN B64Char((byte(i) % 4) * 16 + byte(i + 1) \div 16)
           ELSE IF j = 2
                THEN (IF i + 1 > n THEN 61
                      ELSE B64Char((byte(i + 1) % 16) * 4 + byte(i + 2) \div 64))
           ELSE (IF i + 2 > n THEN 61 ELSE B64Char(byte(i + 2) % 64))
  IN [k \in 1..(4 * ((n + 2) \div 3)) |-> char(k)]

\* Byte k of the characters d (no padding, length not 1 modulo 4): four
\* characters to three bytes, the bits left over at the end dropped.
base64Decode(d) ==
  LET m == Len(d)
      val(i) == IF i <= m THEN B64Value(d[i]) ELSE 0
      byte(k) ==
        LET i == 4 * ((k - 1) \div 3) + 1
            j == (k - 1) % 3
        IN IF j = 0 THEN val(i) * 4 + val(i + 1) \div 16
           ELSE IF j = 1 THEN (val(i + 1) % 16) * 16 + val(i + 2) \div 4
           ELSE (val(i + 2) % 4) * 64 + val(i + 3)
      n == 3 * (m \div 4) + (IF m % 4 = 2 THEN 1 ELSE IF m % 4 = 3 THEN 2 ELSE 0)
  IN [k \in 1..n |-> byte(k)]

\* btoa: a string of code units 0..255 to base64; any other string throws.
btoa(s) ==
  IF \E i \in 1..Len(s) : s[i] > 255 THEN Throw("InvalidCharacterError")
  ELSE Str(base64Encode(s))

\* atob: the forgiving base64 decoding of the HTML standard.
atob(data) ==
  LET stripped == SelectSeq(data, LAMBDA c : c \notin {9, 10, 12, 13, 32})
      n == Len(stripped)
      unpadded ==
        IF n > 0 /\ n % 4 = 0 /\ stripped[n] = 61
        THEN IF stripped[n - 1] = 61 THEN SubSeq(stripped, 1, n - 2)
             ELSE SubSeq(stripped, 1, n - 1)
        ELSE stripped
  IN IF Len(unpadded) % 4 = 1 \/ \E i \in 1..Len(unpadded) : B64Value(unpadded[i]) < 0
     THEN Throw("InvalidCharacterError")
     ELSE Str(base64Decode(unpadded))

---------------------------------------------------------------------------
(* utils/x402.ts: the header envelope *)

encodeX402Header(h) == btoa(JSONstringify(h))

decodeX402Header(encoded) ==
  LET json == atob(encoded)
  IN IF IsThrow(json) THEN json ELSE JSONparse(json.v)

createX402V1Header(network, payload) ==
  Obj(<< <<x402VersionKey, Num(1)>>, <<schemeKey, Str(exact)>>,
         <<networkKey, Str(network)>>, <<payloadKey, payload>> >>)

\* createX402V2Header with the network taken as given.
createX402V2HeaderRawNetwork(network, payload, accepts) ==
  LET h == << <<x402VersionKey, Num(2)>>, <<schemeKey, Str(exact)>>,
              <<networkKey, Str(network)>>, <<payloadKey, payload>> >>
  IN IF Truthy(accepts) /\ Len(accepts.v) > 0
     THEN Obj(Append(h, <<acceptsKey, accepts>>))
     ELSE Obj(h)

createX402V2Header(network, payload, accepts) ==
  LET h == << <<x402VersionKey, Num(2)>>, <<schemeKey, Str(exact)>>,
              <<networkKey, Str(IF includes(network, COLON) THEN network
                                ELSE chainToCAIP2(network))>>,
              <<payloadKey, payload>> >>
  IN IF Truthy(accepts) /\ Len(accepts.v) > 0
     THEN Obj(Append(h, <<acceptsKey, accepts>>))
     ELSE Obj(h)

auto == Str(U("auto"))

createX402Header(chainConfig, payload, version) ==
  LET given == IF version = Undefined THEN auto ELSE version
      effectiveVersion == IF given = auto THEN Num(1) ELSE given
  IN IF effectiveVersion = Num(2)
     THEN createX402V2Header(chainConfig.name, payload, Undefined)
     ELSE createX402V1Header(chainConfig.name, payload)

\* convertX402Header without the early return: the header is always rebuilt.
convertX402HeaderAlwaysRebuild(h, targetVersion) ==
  IF targetVersion = 2
  THEN Obj(<< <<x402VersionKey, Num(2)>>, <<schemeKey, Str(exact)>>,
              <<networkKey, Str(chainToCAIP2(Field(h, networkKey).v))>>,
              <<payloadKey, Field(h, payloadKey)>> >>)
  ELSE LET network == Field(h, networkKey).v
           found == caip2ToChain(network)
           chainName == IF isCAIP2Format(network)
                        THEN (IF Truthy(found) THEN found.v ELSE network)
                        ELSE network
       IN Obj(<< <<x402VersionKey, Num(1)>>, <<schemeKey, Str(exact)>>,
                 <<networkKey, Str(chainName)>>,
                 <<payloadKey, Field(h, payloadKey)>> >>)

convertX402Header(h, targetVersion) ==
  IF Field(h, x402VersionKey) = Num(targetVersion) THEN h
  ELSE IF targetVersion = 2
       THEN Obj(<< <<x402VersionKey, Num(2)>>, <<schemeKey, Str(exact)>>,
                   <<networkKey, Str(chainToCAIP2(Field(h, networkKey).v))>>,
                   <<payloadKey, Field(h, payloadKey)>> >>)
  ELSE LET network == Field(h, networkKey).v
           found == caip2ToChain(network)
           chainName == IF isCAIP2Format(network)
                        THEN (IF Truthy(found) THEN found.v ELSE network)
                        ELSE network
       IN Obj(<< <<x402VersionKey, Num(1)>>, <<schemeKey, Str(exact)>>,
                 <<networkKey, Str(chainName)>>,
                 <<payloadKey, Field(h, payloadKey)>> >>)


---------------------------------------------------------------------------
(* A payment's header: created, converted, encoded for the wire, decoded *)

\* String contents of payload fields: base64 text, JSON's special characters,
\* a Latin-1 letter, the euro sign, a surrogate pair, a lone surrogate.
Contents ==
  {U("AQID"), <<97, 34, 98, 92, 99, 10>>, <<233>>, <<8364>>, <<55357, 56832>>, <<55357>>}

solanaPayload(s) == Obj(<< <<U("transaction"), Str(s)>> >>)

evmPayload ==
  Obj(<< <<U("signature"), Str(U("0x1b"))>>,
         <<U("authorization"),
           Obj(<< <<U("from"), Str(U("0xaa"))>>, <<U("to"), Str(U("0xbb"))>>,
                  <<U("value"), Str(U("1000000"))>>, <<U("validAfter"), Str(U("0"))>>,
                  <<U("validBefore"), Str(U("1700000300"))>>,
                  <<U("nonce"), Str(U("0x01"))>> >>)>> >>)

algorandPayload ==
  Obj(<< <<U("paymentIndex"), Num(1)>>,
         <<U("paymentGroup"), Arr(<<Str(U("gqN0eG4=")), Str(U("gqNzaWc="))>>)>> >>)

Payloads == {solanaPayload(s) : s \in Contents} \cup {evmPayload, algorandPayload}

\* Network strings handed to the header constructors.
Networks ==
  RegisteredNames
  \cup {U("Base"), U("unknown"), U("eip155:8453"), U("eip155:0"), U("foo:bar")}

\* (network, payload) pairs handed to the header constructors.
CreateInputs ==
  (Networks \X {solanaPayload(U("AQID"))})
  \cup ({U("base"), U("eip155:8453")} \X Payloads)

AcceptsInputs == {Undefined, Arr(<<>>), Arr(<<anOption>>)}

\* Chain configurations handed to createX402Header: the registry's, and one
\* the caller built.
ConfigInputs ==
  {SUPPORTED_CHAINS[i][2] : i \in 1..Len(SUPPORTED_CHAINS)}
  \cup {ChainConfig("mychain", 31337, "evm")}

VersionInputs == {Undefined, auto, Num(1), Num(2)}

InitEnvelope == fn = "" /\ args = <<>> /\ ret = Undefined /\ NoEnvelope /\ NoAdapter /\ NoClock /\ NoWindow

CreateV1 ==
  \E in \in CreateInputs :
    /\ fn' = "createX402V1Header"
    /\ args' = <<Str(in[1]), in[2]>>
    /\ ret' = createX402V1Header(in[1], in[2])
    /\ header' = ret'
    /\ wire' = Undefined
    /\ UNCHANGED <<adapter, calls, clock, chains, ethereum>>

CreateV2 ==
  \E in \in CreateInputs, accepts \in AcceptsInputs :
    /\ fn' = "createX402V2Header"
    /\ args' = <<Str(in[1]), in[2], accepts>>
    /\ ret' = createX402V2Header(in[1], in[2], accepts)
    /\ header' = ret'
    /\ wire' = Undefined
    /\ UNCHANGED <<adapter, calls, clock, chains, ethereum>>

CreateHeader ==
  \E chainConfig \in ConfigInputs, version \in VersionInputs :
    /\ fn' = "createX402Header"
    /\ args' = <<chainConfig, evmPayload, version>>
    /\ ret' = createX402Header(chainConfig, evmPayload, version)
    /\ header' = ret'
    /\ wire' = Undefined
    /\ UNCHANGED <<adapter, calls, clock, chains, ethereum>>

Convert ==
  \E targetVersion \in {1, 2} :
    /\ header # Undefined
    /\ fn' = "convertX402Header"
    /\ args' = <<header, Num(targetVersion)>>
    /\ ret' = convertX402Header(header, targetVersion)
    /\ header' = ret'
    /\ wire' = Undefined
    /\ UNCHANGED <<adapter, calls, clock, chains, ethereum>>

\* The header leaves as a header value, unless encoding throws.
Encode ==
  /\ header # Undefined
  /\ fn' = "encodeX402Header"
  /\ args' = <<header>>
  /\ ret' = encodeX402Header(header)
  /\ wire' = IF IsThrow(ret') THEN Undefined ELSE ret'
  /\ header' = Undefined
  /\ UNCHANGED <<adapter, calls, clock, chains, ethereum>>

\* The receiving side reads the header value.
Decode ==
  /\ wire # Undefined
  /\ fn' = "decodeX402Header"
  /\ args' = <<wire>>
  /\ ret' = decodeX402Header(wire.v)
  /\ header' = IF IsThrow(ret') THEN Undefined ELSE ret'
  /\ wire' = Undefined
  /\ UNCHANGED <<adapter, calls, clock, chains, ethereum>>

NextEnvelope == CreateV1 \/ CreateV2 \/ CreateHeader \/ Convert \/ Encode \/ Decode

SpecEnvelope == InitEnvelope /\ [][NextEnvelope]_vars

---------------------------------------------------------------------------
(* Properties of the identifier functions (SpecIds) *)

\* The object has the property key with a value satisfying P.
HasProp(data, key, P(_)) ==
  data.t = "object" /\ \E i \in 1..Len(data.v) : data.v[i][1] = key /\ P(data.v[i][2])

IsTwo(x) == x = Num(2)
IsArray(x) == x.t = "array"
IsCaipString(x) == x.t = "string" /\ \E i \in 1..Len(x.v) : x.v[i] = COLON

\* C6: detectX402Version(data) returns 2 for an object whose x402Version is
\* exactly the number 2; otherwise 2 when the object has an accepts array;
\* otherwise 2 when its network is a string containing ':'; otherwise 1; and
\* 1 for every input that is not an object, null included.
C6_DetectVersion ==
  fn = "detectX402Version" =>
    LET data == args[1]
    IN ret = Num(IF \/ HasProp(data, x402VersionKey, IsTwo)
                    \/ HasProp(data, acceptsKey, IsArray)
                    \/ HasProp(data, networkKey, IsCaipString)
                 THEN 2 ELSE 1)

\* An object with no version 2 and no CAIP-2 network is detected as v2 by
\* its accepts array.
C6_Witness ==
  /\ fn = "detectX402Version"
  /\ ret = Num(2)
  /\ ~HasProp(args[1], x402VersionKey, IsTwo)
  /\ ~HasProp(args[1], networkKey, IsCaipString)
  /\ HasProp(args[1], acceptsKey, IsArray)

\* C7: caip2ToChain(chainToCAIP2(name)) = name for every registered chain
\* name (the keys of SUPPORTED_CHAINS and of the CAIP-2 table), and no two
\* registered names have the same CAIP-2 identifier.
C7_RoundTrip ==
  /\ (fn = "chainToCAIP2" /\ args[1].v \in RegisteredNames) =>
       caip2ToChain(ret.v) = args[1]
  /\ \A a, b \in RegisteredNames : chainToCAIP2(a) = chainToCAIP2(b) => a = b

\* A chain that is in the table but not in the registry went through.
C7_Witness ==
  /\ fn = "chainToCAIP2"
  /\ args[1] = Str(U("sui"))
  /\ getChainByName(U("sui")) = Undefined
  /\ caip2ToChain(ret.v) = Str(U("sui"))

\* id is an identifier of the registered chain name: its table value,
\* eip155:{chainId} for an EVM chain, or {networkType}:{name}.
IsIdentifierOf(id, name) ==
  \/ Has(CAIP2_IDENTIFIERS, name) /\ Get(CAIP2_IDENTIFIERS, name) = id
  \/ /\ Has(SUPPORTED_CHAINS, name)
     /\ LET chain == Get(SUPPORTED_CHAINS, name)
        IN \/ chain.networkType = evm /\ id = eip155Prefix \o Dec(chain.chainId)
           \/ id = chain.networkType \o <<COLON>> \o name

\* C8: caip2ToChain(id) returns null for every id that is not the
\* identifier of a registered chain, and returns a chain name only when that
\* chain's identifier equals id.
C8_NullForUnknown ==
  fn = "caip2ToChain" =>
    IF \E name \in RegisteredNames : IsIdentifierOf(args[1].v, name)
    THEN ret # Null /\ IsIdentifierOf(args[1].v, ret.v)
    ELSE ret = Null


---------------------------------------------------------------------------
(* Properties of the header envelope (SpecEnvelope) *)

VersionOf(h) == Field(h, x402VersionKey)
NetworkOf(h) == Field(h, networkKey).v

\* C1: decodeX402Header(encodeX402Header(h)) is deeply equal to h, for every
\* valid header h, whatever the strings in its fields.
C1_RoundTrip ==
  fn = "encodeX402Header" =>
    ~IsThrow(ret) /\ decodeX402Header(ret.v) = args[1]

\* The functions that produce headers.
Producers ==
  {"createX402V1Header", "createX402V2Header", "createX402Header", "convertX402Header"}

\* A v1 network has no colon, a v2 network has one.
NetworkFormOK(h) ==
  /\ VersionOf(h) = Num(1) => ~includes(NetworkOf(h), COLON)
  /\ VersionOf(h) = Num(2) => includes(NetworkOf(h), COLON)

RegisteredIds == {chainToCAIP2(name) : name \in RegisteredNames}

\* The last call was given a registered chain: by name to the constructors,
\* in the network of the header to convert (name in v1, identifier in v2).
RegisteredInput ==
  \/ fn \in {"createX402V1Header", "createX402V2Header"} /\ args[1].v \in RegisteredNames
  \/ fn = "createX402Header" /\ args[1].name \in RegisteredNames
  \/ /\ fn = "convertX402Header"
     /\ \/ VersionOf(args[1]) = Num(1) /\ NetworkOf(args[1]) \in RegisteredNames
        \/ VersionOf(args[1]) = Num(2) /\ NetworkOf(args[1]) \in RegisteredIds

C9_ConvertIdempotent ==
  fn = "convertX402Header" =>
    /\ convertX402Header(ret, args[2].v) = ret
    /\ VersionOf(args[1]) = args[2] => ret = args[1]

\* A v2 header with accepts was converted to its own version.
C9_Witness ==
  /\ fn = "convertX402Header"
  /\ args[2] = Num(2)
  /\ VersionOf(args[1]) = Num(2)
  /\ Has(args[1].v, acceptsKey)
  /\ ret = args[1]

---------------------------------------------------------------------------
(* providers/near: base58Encode and base58Decode *)

ALPHABET == U("123456789ABCDEFGHJKLMNPQRSTUVWXYZabcdefghijkmnopqrstuvwxyz")

\* ALPHABET_MAP[c], for a character of the alphabet.
ALPHABET_MAP(c) == (CHOOSE i \in 1..Len(ALPHABET) : ALPHABET[i] = c) - 1

InAlphabet(c) == \E i \in 1..Len(ALPHABET) : ALPHABET[i] = c

Uint8Array(b) == [t |-> "Uint8Array", v |-> b]

\* The carry loop over the digits (least significant first) from index j,
\* followed by the loop that pushes what is left of the carry.
RECURSIVE carryLoop(_, _, _, _)
carryLoop(digits, j, carry, radix) ==
  IF j > Len(digits)
  THEN IF carry = 0 THEN digits
       ELSE carryLoop(Append(digits, carry % radix), j + 1, carry \div radix, radix)
  ELSE carryLoop([digits EXCEPT ![j] = (digits[j] + carry) % radix], j + 1,
                 (digits[j] + carry) \div radix, radix)

\* One round of the outer loop: every digit times factor, value added to
\* the first, carries propagated.
mulAdd(digits, factor, value, radix) ==
  carryLoop([j \in 1..Len(digits) |->
               digits[j] * factor + (IF j = 1 THEN value ELSE 0)],
            1, 0, radix)

\* The number of leading elements of s equal to x.
RECURSIVE leading(_, _)
leading(s, x) == IF Len(s) > 0 /\ s[1] = x THEN 1 + leading(Tail(s), x) ELSE 0

reverse(s) == [i \in 1..Len(s) |-> s[Len(s) + 1 - i]]

\* The base-58 digits of the bytes from index i on, given the digits so far.
RECURSIVE encodeDigits(_, _, _)
encodeDigits(bytes, i, digits) ==
  IF i > Len(bytes) THEN digits
  ELSE encodeDigits(bytes, i + 1, mulAdd(digits, 256, bytes[i], 58))

base58Encode(bytes) ==
  LET digits == encodeDigits(bytes, 1, <<0>>)
  IN [i \in 1..leading(bytes, 0) |-> ALPHABET[1]]
     \o [i \in 1..Len(digits) |-> ALPHABET[digits[Len(digits) + 1 - i] + 1]]

\* The bytes of the characters from index i on, given the bytes so far.
RECURSIVE decodeBytes(_, _, _)
decodeBytes(str, i, bytes) ==
  IF i > Len(str) THEN bytes
  ELSE decodeBytes(str, i + 1, mulAdd(bytes, 58, ALPHABET_MAP(str[i]), 256))

base58Decode(str) ==
  IF \E i \in 1..Len(str) : ~InAlphabet(str[i]) THEN Throw("Error")
  ELSE LET bytes == decodeBytes(str, 1, <<0>>)
       IN Uint8Array(reverse(bytes \o [i \in 1..leading(str, ALPHABET[1]) |-> 0]))


---------------------------------------------------------------------------
(* Callers of the Base58 functions *)

\* The longest byte array encoded.
MaxBytes == 3

\* Byte values: zero, one, the radix and its neighbour, the largest byte.
ByteSamples == {0, 1, 57, 58, 255}

RECURSIVE ByteArrays(_)
ByteArrays(n) ==
  IF n = 0 THEN {<<>>}
  ELSE ByteArrays(n - 1)
       \cup {Append(b, x) : b \in {c \in ByteArrays(n - 1) : Len(c) = n - 1},
                            x \in ByteSamples}

\* Strings handed to base58Decode: Base58 text, and text that is not.
Base58Inputs ==
  {base58Encode(b) : b \in ByteArrays(2)}
  \cup {U(""), U("1"), U("11"), U("2"), U("12"), U("z"), U("0"), U("l"), U("1O"), U("I1")}

InitBase58 == fn = "" /\ args = <<>> /\ ret = Undefined /\ NoEnvelope /\ NoAdapter /\ NoClock /\ NoWindow

Base58Encode ==
  \E bytes \in ByteArrays(MaxBytes) :
    /\ fn' = "base58Encode"
    /\ args' = <<Uint8Array(bytes)>>
    /\ ret' = Str(base58Encode(bytes))
    /\ UNCHANGED <<header, wire, adapter, calls, clock, chains, ethereum>>

Base58Decode ==
  \E str \in Base58Inputs :
    /\ fn' = "base58Decode"
    /\ args' = <<Str(str)>>
    /\ ret' = base58Decode(str)
    /\ UNCHANGED <<header, wire, adapter, calls, clock, chains, ethereum>>

NextBase58 == Base58Encode \/ Base58Decode

SpecBase58 == InitBase58 /\ [][NextBase58]_vars

\* C10: base58Decode(base58Encode(b)) = b for every byte array b, and an
\* input with N leading zero bytes encodes to exactly N leading '1'
\* characters followed by the encoding of the remaining bytes.
C10_Base58RoundTrip ==
  fn = "base58Encode" =>
    LET b == args[1].v
        n == leading(b, 0)
    IN /\ base58Decode(ret.v) = args[1]
       /\ leading(ret.v, ALPHABET[1]) = n
       /\ ret.v = [i \in 1..n |-> ALPHABET[1]] \o base58Encode(SubSeq(b, n + 1, Len(b)))

---------------------------------------------------------------------------
(* utils/validation.ts, and the number conversions the builders apply to
   an amount *)

X402Error(code) == [t |-> "X402Error", code |-> code]

\* An error that is not an X402Error: the library's or the engine's own.
RawError(name) == [t |-> "Error", name |-> name]

\* X402ErrorCode
X402ErrorCode ==
  {"WALLET_NOT_FOUND", "WALLET_NOT_CONNECTED", "WALLET_NOT_SUPPORTED",
   "WALLET_CONNECTION_FAILED", "WALLET_CONNECTION_REJECTED", "WALLET_CONNECTION_TIMEOUT",
   "CHAIN_NOT_SUPPORTED", "CHAIN_SWITCH_REJECTED", "INSUFFICIENT_BALANCE",
   "SIGNATURE_REJECTED", "PAYMENT_FAILED", "PAYMENT_TIMEOUT", "NETWORK_ERROR",
   "INVALID_CONFIG", "INVALID_AMOUNT", "INVALID_RECIPIENT", "UNKNOWN_ERROR"}

\* The code units String.prototype.trim removes.
WhiteSpace ==
  {9, 10, 11, 12, 13, 32, 160, 5760, 8232, 8233, 8239, 8287, 12288, 65279} \cup (8192..8202)

RECURSIVE trimStart(_)
trimStart(s) ==
  IF Len(s) > 0 /\ s[1] \in WhiteSpace THEN trimStart(Tail(s)) ELSE s

RECURSIVE trimEnd(_)
trimEnd(s) ==
  IF Len(s) > 0 /\ s[Len(s)] \in WhiteSpace THEN trimEnd(SubSeq(s, 1, Len(s) - 1)) ELSE s

trim(s) == trimEnd(trimStart(s))

isHex(c) == isDigit(c) \/ (c >= 97 /\ c <= 102) \/ (c >= 65 /\ c <= 70)
isUpper(c) == c >= 65 /\ c <= 90
isLower(c) == c >= 97 /\ c <= 122

\* /^0x[a-fA-F0-9]{40}$/
ETH_ADDRESS_REGEX(s) ==
  Len(s) = 42 /\ s[1] = 48 /\ s[2] = 120 /\ \A i \in 3..42 : isHex(s[i])

\* /^[1-9A-HJ-NP-Za-km-z]{32,44}$/
SOLANA_ADDRESS_REGEX(s) ==
  Len(s) >= 32 /\ Len(s) <= 44
  /\ \A i \in 1..Len(s) :
       \/ s[i] >= 49 /\ s[i] <= 57
       \/ isUpper(s[i]) /\ s[i] \notin {73, 79}
       \/ isLower(s[i]) /\ s[i] # 108

\* /^G[A-Z2-7]{55}$/
STELLAR_ADDRESS_REGEX(s) ==
  Len(s) = 56 /\ s[1] = 71
  /\ \A i \in 2..56 : isUpper(s[i]) \/ (s[i] >= 50 /\ s[i] <= 55)

\* /^[a-z0-9._-]+$/
NEAR_ADDRESS_REGEX(s) ==
  Len(s) > 0 /\ \A i \in 1..Len(s) : isLower(s[i]) \/ isDigit(s[i]) \/ s[i] \in {46, 95, 45}

\* validateRecipient: undefined when it returns, the X402Error it throws
\* otherwise.  networkType is "" when the caller gives none.
validateRecipient(recipient, networkType) ==
  IF ~Truthy(recipient) THEN X402Error("INVALID_RECIPIENT")
  ELSE LET trimmed == trim(recipient.v)
       IN IF trimmed = <<>> THEN X402Error("INVALID_RECIPIENT")
          ELSE IF networkType = "evm" /\ ~ETH_ADDRESS_REGEX(trimmed)
               THEN X402Error("INVALID_RECIPIENT")
          ELSE IF networkType \in {"svm", "solana"} /\ ~SOLANA_ADDRESS_REGEX(trimmed)
               THEN X402Error("INVALID_RECIPIENT")
          ELSE IF networkType = "stellar" /\ ~STELLAR_ADDRESS_REGEX(trimmed)
               THEN X402Error("INVALID_RECIPIENT")
          ELSE IF networkType = "near"
                  /\ (~NEAR_ADDRESS_REGEX(trimmed) \/ Len(trimmed) > 64)
               THEN X402Error("INVALID_RECIPIENT")
          ELSE Undefined

NaN == [t |-> "NaN"]

RECURSIVE Pow10(_)
Pow10(n) == IF n = 0 THEN 1 ELSE 10 * Pow10(n - 1)

\* A decimal number: (-1)^neg * digits / 10^scale.
Decimal(neg, digits, scale) ==
  [t |-> "decimal", neg |-> neg, digits |-> digits, scale |-> scale]

\* String(x), for the values handed to parseFloat.
StringOf(x) ==
  IF x.t = "string" THEN x.v
  ELSE IF x.t = "undefined" THEN U("undefined")
  ELSE U("null")

\* parseFloat: the longest prefix, after leading white space, of the form
\* [+-] digits [. digits]; NaN when it holds no digit.  Exponents and
\* Infinity are left out.
parseFloat(x) ==
  LET s == trimStart(StringOf(x))
      signed == Len(s) > 0 /\ s[1] \in {43, 45}
      neg == Len(s) > 0 /\ s[1] = 45
      from == IF signed THEN 2 ELSE 1
      intEnd == digitsEnd(s, from)
      hasPoint == intEnd <= Len(s) /\ s[intEnd] = 46
      fracEnd == IF hasPoint THEN digitsEnd(s, intEnd + 1) ELSE intEnd
      intDigits == SubSeq(s, from, intEnd - 1)
      fracDigits == IF hasPoint THEN SubSeq(s, intEnd + 1, fracEnd - 1) ELSE <<>>
  IN IF Len(intDigits) + Len(fracDigits) = 0 THEN NaN
     ELSE Decimal(neg, parseInt(intDigits \o fracDigits), Len(fracDigits))

\* x <= 0, for a number that is not NaN.
NotPositive(x) == x.digits = 0 \/ x.neg

\* Math.floor(x * factor): an integer, or NaN.  The product is the exact
\* one, which is also the double's for the amounts of this model.
floorTimes(x, factor) ==
  IF x = NaN THEN NaN
  ELSE Num(((IF x.neg THEN 0 - x.digits ELSE x.digits) * factor) \div Pow10(x.scale))

\* BigInt(x), for x an integer or NaN.
BigInt(x) == IF x = NaN THEN RawError("RangeError") ELSE [t |-> "bigint", v |-> x.v]

validateAmount(amount) ==
  IF ~Truthy(amount) THEN X402Error("INVALID_AMOUNT")
  ELSE LET trimmed == trim(amount.v)
           num == parseFloat(Str(trimmed))
       IN IF trimmed = <<>> THEN X402Error("INVALID_AMOUNT")
          ELSE IF num = NaN THEN X402Error("INVALID_AMOUNT")
          ELSE IF NotPositive(num) THEN X402Error("INVALID_AMOUNT")
          ELSE Undefined

\* ethers.parseUnits(value, decimals): /^(-?)([0-9]*)\.?([0-9]*)$/ with at
\* least one digit and no non-zero digit beyond the decimals, else it throws.
parseUnits(value, decimals) ==
  IF value.t # "string" THEN RawError("TypeError")
  ELSE LET s == value.v
           neg == Len(s) > 0 /\ s[1] = 45
           from == IF neg THEN 2 ELSE 1
           intEnd == digitsEnd(s, from)
           hasPoint == intEnd <= Len(s) /\ s[intEnd] = 46
           fracEnd == IF hasPoint THEN digitsEnd(s, intEnd + 1) ELSE intEnd
           whole == SubSeq(s, from, intEnd - 1)
           frac == IF hasPoint THEN SubSeq(s, intEnd + 1, fracEnd - 1) ELSE <<>>
           kept == SubSeq(frac, 1, IF Len(frac) < decimals THEN Len(frac) ELSE decimals)
           magnitude == parseInt(whole) * Pow10(decimals)
                        + parseInt(kept) * Pow10(decimals - Len(kept))
       IN IF fracEnd # Len(s) + 1 \/ Len(whole) + Len(frac) = 0 THEN RawError("TypeError")
          ELSE IF \E i \in (decimals + 1)..Len(frac) : frac[i] # 48
               THEN RawError("NumericFaultError")
          ELSE [t |-> "bigint", v |-> IF neg THEN 0 - magnitude ELSE magnitude]

---------------------------------------------------------------------------
(* The wallet adapters of the providers directory: connect, disconnect and
   signPayment.  A call is given the adapter's fields, its arguments and
   the environment's answers (env), and yields the adapter's new fields,
   the call's result and the requests it issued.                         *)

\* A request to a chain's RPC endpoint, a request to the user's wallet.
Rpc(method) == [to |-> "rpc", method |-> method]
Wallet(method) == [to |-> "wallet", method |-> method]

\* The request a JsonRpcSigner sends for signTypedData: the account the
\* signer was made for is the one the wallet is asked to sign with.
SignTypedData(signer) ==
  [to |-> "wallet", method |-> "eth_signTypedData_v4", account |-> signer]

\* An event given to the handlers registered for it.
Emitted(event) == [to |-> "handlers", event |-> event]

\* The value an async call resolved to.
Resolved(value) == [t |-> "resolved", v |-> value]

\* The outcome of a call that leaves the adapter as it was.
Out(result, issued) == [ret |-> result, calls |-> issued]

\* The outcome of a call that ends with the adapter's fields self.
Done(self, result, issued) == [self |-> self, ret |-> result, calls |-> issued]

\* The payment payload signPayment returns, as far as modelled: recipient
\* and amount in atomic units.
Payload(to, amount) == Resolved([to |-> to, amount |-> amount])

\* The catch clause around a wallet's signing request.
SignResult(answer, payload) ==
  IF answer = "reject" THEN X402Error("SIGNATURE_REJECTED")
  ELSE IF answer = "fail" THEN X402Error("PAYMENT_FAILED")
  ELSE payload

\* The catch clause around a wallet's connection request.
ConnectError(answer) ==
  IF answer = "reject" THEN X402Error("WALLET_CONNECTION_REJECTED")
  ELSE X402Error("UNKNOWN_ERROR")

\* chains: the decimals of the usdc token of the EVM chains.
USDC_DECIMALS == 6

\* chains: getTokenConfig(chainName, 'usdc').
getTokenConfig(chainName) ==
  IF getChainByName(chainName) = Undefined THEN Undefined
  ELSE [decimals |-> USDC_DECIMALS]

\* The accounts the wallets hold.
evmAccount == U("0x1111111111111111111111111111111111111111")
svmAccount == U("7xKXtg2CW87d97TXJSDpbD5jBkheTqA83TZRuJosgAsU")
stellarAccount == U("GA7QYNF7SOWQ3GLR2BGMZEHXAVIRZA4KVWLTJJFC7MGXUA74P7UJVSGZ")
nearAccount == U("alice.near")
algorandAccount == U("VCMJKWOY5P5P7SKMZFFOCEROPJCZOTIJMNIYNUCKH7LRO45JMJP6UYBIJA")
suiAccount == U("0x2222222222222222222222222222222222222222222222222222222222222222")

\* ---- EVMProvider ----

EVMProvider ==
  [kind |-> "evm", provider |-> FALSE, signer |-> Null, address |-> Null,
   chainName |-> Null]

\* ethers.getAddress: a 40-digit hexadecimal address, with or without 0x
\* (the checksum of a mixed-case address is not modelled: the model's
\* addresses are lower-case).
getAddressAccepts(s) ==
  \/ ETH_ADDRESS_REGEX(s)
  \/ Len(s) = 40 /\ \A i \in 1..40 : isHex(s[i])

\* chains: DEFAULT_CHAIN
DEFAULT_CHAIN == U("base")

EVMconnect(self, chainName, accounts, env) ==
  LET targetChainName == IF Truthy(chainName) THEN chainName.v ELSE DEFAULT_CHAIN
      chain == getChainByName(targetChainName)
      started == [self EXCEPT !.provider = TRUE]
  IN IF chain = Undefined THEN Done(self, X402Error("CHAIN_NOT_SUPPORTED"), <<>>)
     ELSE IF chain.networkType # evm
          THEN Done(self, X402Error("CHAIN_NOT_SUPPORTED"), <<>>)
     ELSE IF env.wallet = "absent" THEN Done(self, X402Error("WALLET_NOT_FOUND"), <<>>)
     ELSE IF env.wallet # "ok"
          THEN Done(started, ConnectError(env.wallet), <<Wallet("eth_requestAccounts")>>)
     ELSE IF env.next = "fail"
          \* switchChain throws CHAIN_SWITCH_REJECTED, which connect's catch
          \* clause wraps again
          THEN Done(started, X402Error("UNKNOWN_ERROR"),
                    <<Wallet("eth_requestAccounts"), Wallet("wallet_switchEthereumChain")>>)
     ELSE IF env.next = "signer"
          \* switchChain has set chainId and chainName when getSigner fails
          THEN Done([started EXCEPT !.chainName = Str(chain.name)], X402Error("UNKNOWN_ERROR"),
                    <<Wallet("eth_requestAccounts"), Wallet("wallet_switchEthereumChain"),
                      Wallet("eth_accounts")>>)
     ELSE Done([started EXCEPT !.signer = Str(accounts[1]), !.address = Str(accounts[1]),
                               !.chainName = Str(chain.name)],
               Resolved(Str(accounts[1])),
               <<Wallet("eth_requestAccounts"), Wallet("wallet_switchEthereumChain"),
                 Wallet("eth_accounts")>>)

\* The TransferWithAuthorization message and the payload made of it, as
\* far as modelled.
Authorization(from, to, value, validAfter, validBefore) ==
  Resolved([from |-> from, to |-> to, value |-> value, validAfter |-> validAfter,
            validBefore |-> validBefore])

base == U("base")

\* Number.prototype.toString() and BigInt.prototype.toString() of an integer.
toString(n) == IF n < 0 THEN <<45>> \o Dec(0 - n) ELSE Dec(n)

\* Math.floor(Date.now() / 1000) + validityWindowSeconds
validBeforeOf(now, validityWindowSeconds) == (now \div 1000) + validityWindowSeconds

EVMsignPayment(self, paymentInfo, chainConfig, now, env) ==
  LET invalid == validateRecipient(paymentInfo.recipient, "evm")
      validAfter == 0
      validityWindowSeconds == IF chainConfig.name = base THEN 300 ELSE 60
      validBefore == validBeforeOf(now, validityWindowSeconds)
      value == parseUnits(paymentInfo.amount, USDC_DECIMALS)
  IN IF ~Truthy(self.signer) \/ ~Truthy(self.address)
     THEN Out(X402Error("WALLET_NOT_CONNECTED"), <<>>)
     ELSE IF getTokenConfig(chainConfig.name) = Undefined
          THEN Out(X402Error("CHAIN_NOT_SUPPORTED"), <<>>)
     ELSE IF invalid # Undefined THEN Out(invalid, <<>>)
     ELSE IF value.t = "Error" THEN Out(value, <<>>)
     ELSE IF ~getAddressAccepts(paymentInfo.recipient.v) THEN Out(RawError("Error"), <<>>)
     \* signTypedData encodes the message before it asks the wallet; a
     \* negative uint256 is the encoder's to accept or refuse
     ELSE IF value.v < 0 /\ env.lib = "throw" THEN Out(X402Error("PAYMENT_FAILED"), <<>>)
     ELSE Out(SignResult(env.wallet,
                         Authorization(self.address, paymentInfo.recipient,
                                       Str(toString(value.v)), Num(validAfter),
                                       Num(validBefore))),
              <<SignTypedData(self.signer)>>)

\* ---- SVMProvider ----

SVMProvider == [kind |-> "svm", provider |-> FALSE, publicKey |-> FALSE, address |-> Null]

\* new PublicKey(s): Base58 text of a 32-byte key.
PublicKeyAccepts(x) == x.t = "string" /\ SOLANA_ADDRESS_REGEX(x.v)

SVMconnect(self, env) ==
  IF env.wallet = "absent"
  THEN Done([self EXCEPT !.provider = FALSE], X402Error("WALLET_NOT_FOUND"), <<>>)
  ELSE IF env.wallet # "ok"
       THEN Done([self EXCEPT !.provider = TRUE], ConnectError(env.wallet),
                 <<Wallet("connect")>>)
  ELSE Done([self EXCEPT !.provider = TRUE, !.publicKey = TRUE, !.address = Str(svmAccount)],
            Resolved(Str(svmAccount)), <<Wallet("connect")>>)

\* An RPC request together with the answer it got.
Answered(request, answer) == [to |-> request.to, method |-> request.method, answer |-> answer]

\* The instruction list with the create instruction whatever the RPC
\* node answered.
SVMInstructionsAlwaysCreate(self, paymentInfo, amount, needsATACreation) ==
  <<[type |-> "SetComputeUnitLimit", units |-> IF needsATACreation THEN 50000 ELSE 20000],
    [type |-> "SetComputeUnitPrice", microLamports |-> 1],
    [type |-> "CreateAssociatedTokenAccountIdempotent", payer |-> self.address,
     owner |-> paymentInfo.recipient],
    [type |-> "TransferChecked", owner |-> self.address,
     destination |-> paymentInfo.recipient, amount |-> amount, decimals |-> 6]>>

\* The instructions of signPayment, in the order they are pushed; token
\* accounts are named by their owners.
SVMInstructions(self, paymentInfo, amount, needsATACreation) ==
  <<[type |-> "SetComputeUnitLimit", units |-> IF needsATACreation THEN 50000 ELSE 20000],
    [type |-> "SetComputeUnitPrice", microLamports |-> 1]>>
  \o (IF needsATACreation
      THEN <<[type |-> "CreateAssociatedTokenAccountIdempotent", payer |-> self.address,
              owner |-> paymentInfo.recipient]>>
      ELSE <<>>)
  \o <<[type |-> "TransferChecked", owner |-> self.address,
        destination |-> paymentInfo.recipient, amount |-> amount, decimals |-> 6]>>

\* A message whose fee payer is the connected account.
SVMMessageSelfPaid(self, paymentInfo, instructions) ==
  [payerKey |-> self.address, instructions |-> instructions]

\* The message compiled by signPayment: its fee payer and its
\* instructions.
SVMMessage(self, paymentInfo, instructions) ==
  [payerKey |-> paymentInfo.facilitator, instructions |-> instructions]

\* SolanaPaymentPayload: the transaction, signed by the connected account
\* only.
SolanaPaymentPayload(self, message) ==
  Resolved([transaction |-> [message |-> message, signatures |-> <<self.address>>]])

\* toTokenAccountInfo: what getAccountInfo answers for the recipient's
\* token account (Null: there is none).
SVMsignPayment(self, paymentInfo, chainConfig, toTokenAccountInfo, env) ==
  LET amount == floorTimes(parseFloat(paymentInfo.amount), 1000000)
      badAmount == amount = NaN \/ (amount.v < 0 /\ env.lib = "throw")
      needsATACreation == toTokenAccountInfo = Null
      getAccountInfo == Answered(Rpc("getAccountInfo"), toTokenAccountInfo)
  IN IF ~self.provider \/ ~self.publicKey \/ ~Truthy(self.address)
     THEN Out(X402Error("WALLET_NOT_CONNECTED"), <<>>)
     ELSE IF ~Truthy(paymentInfo.facilitator) THEN Out(X402Error("INVALID_CONFIG"), <<>>)
     ELSE IF ~PublicKeyAccepts(paymentInfo.recipient) THEN Out(RawError("Error"), <<>>)
     ELSE IF ~PublicKeyAccepts(paymentInfo.facilitator) THEN Out(RawError("Error"), <<>>)
     ELSE IF env.rpc = 1 THEN Out(RawError("Error"), <<Rpc("getAccountInfo")>>)
     ELSE IF env.rpc = 2
          THEN Out(RawError("Error"), <<getAccountInfo, Rpc("getLatestBlockhash")>>)
     \* createTransferCheckedInstruction: BigInt(amount)
     ELSE IF badAmount
          THEN Out(RawError("RangeError"), <<getAccountInfo, Rpc("getLatestBlockhash")>>)
     ELSE Out(SignResult(env.wallet,
                         SolanaPaymentPayload(self,
                           SVMMessage(self, paymentInfo,
                                      SVMInstructions(self, paymentInfo, amount.v,
                                                      needsATACreation)))),
              <<getAccountInfo, Rpc("getLatestBlockhash"), Wallet("signTransaction")>>)

\* ---- StellarProvider ----

StellarProvider == [kind |-> "stellar", publicKey |-> Null]

\* new Address(s): a G... account (or a C... contract) key.
AddressAccepts(x) == x.t = "string" /\ STELLAR_ADDRESS_REGEX(x.v)

StellarConnect(self, env) ==
  IF env.wallet = "absent"
  THEN Done(self, X402Error("WALLET_NOT_FOUND"), <<Wallet("isConnected")>>)
  ELSE IF env.wallet = "reject"
       THEN Done(self, X402Error("WALLET_CONNECTION_REJECTED"),
                 <<Wallet("isConnected"), Wallet("requestAccess")>>)
  ELSE IF env.wallet = "fail"
       THEN Done(self, X402Error("UNKNOWN_ERROR"),
                 <<Wallet("isConnected"), Wallet("requestAccess")>>)
  ELSE IF env.next # "ok"
       THEN Done(self, X402Error("WALLET_CONNECTION_REJECTED"),
                 <<Wallet("isConnected"), Wallet("requestAccess"), Wallet("getAddress")>>)
  ELSE Done([self EXCEPT !.publicKey = Str(stellarAccount)], Resolved(Str(stellarAccount)),
            <<Wallet("isConnected"), Wallet("requestAccess"), Wallet("getAddress")>>)

\* xdr.SorobanAuthorizedInvocation of transfer(from, to, amount) on the
\* token contract.
SorobanInvocation(self, paymentInfo, amountStroops) ==
  [functionName |-> "transfer",
   args |-> <<self.publicKey, paymentInfo.recipient, amountStroops>>,
   subInvocations |-> <<>>]

\* xdr.Int64.fromString(nonce.toString())
Int64OfNumber(n) == parseInt(toString(n))

\* xdr.HashIdPreimageSorobanAuthorization: what the wallet is asked to sign.
SorobanPreimage(nonce, signatureExpirationLedger, invocation) ==
  [nonce |-> Int64OfNumber(nonce), signatureExpirationLedger |-> signatureExpirationLedger,
   invocation |-> invocation]

\* An entry whose credentials carry a nonce drawn anew.
SorobanEntryFreshNonce(self, nonce, signatureExpirationLedger, invocation) ==
  [credentials |-> [address |-> self.publicKey, nonce |-> Int64OfNumber(nonce + 1),
                    signatureExpirationLedger |-> signatureExpirationLedger,
                    signature |-> self.publicKey],
   rootInvocation |-> invocation]

\* xdr.SorobanAuthorizationEntry with the signed address credentials; the
\* signature is the connected account's.
SorobanEntry(self, nonce, signatureExpirationLedger, invocation) ==
  [credentials |-> [address |-> self.publicKey, nonce |-> Int64OfNumber(nonce),
                    signatureExpirationLedger |-> signatureExpirationLedger,
                    signature |-> self.publicKey],
   rootInvocation |-> invocation]

\* StellarPaymentPayload
StellarPaymentPayload(self, paymentInfo, amountStroops, entry, nonce, expirationLedger) ==
  Resolved([from |-> self.publicKey, to |-> paymentInfo.recipient,
            amount |-> Str(toString(amountStroops)), authorizationEntryXdr |-> entry,
            nonce |-> nonce, signatureExpirationLedger |-> expirationLedger])

\* currentLedger: the sequence getLatestLedger answers; nonce: the number
\* drawn with Math.random().
StellarSignPayment(self, paymentInfo, chainConfig, currentLedger, nonce, env) ==
  LET amountStroops == floorTimes(parseFloat(paymentInfo.amount), 10000000)
      signatureExpirationLedger == currentLedger + 60
      getLatestLedger == Answered(Rpc("getLatestLedger"), currentLedger)
      invocation == SorobanInvocation(self, paymentInfo, amountStroops.v)
  IN IF ~Truthy(self.publicKey) THEN Out(X402Error("WALLET_NOT_CONNECTED"), <<>>)
     ELSE IF env.rpc # 0 THEN Out(X402Error("PAYMENT_FAILED"), <<Rpc("getLatestLedger")>>)
     ELSE IF ~AddressAccepts(paymentInfo.recipient)
          THEN Out(X402Error("PAYMENT_FAILED"), <<getLatestLedger>>)
     ELSE IF amountStroops = NaN
          THEN Out(X402Error("PAYMENT_FAILED"), <<getLatestLedger>>)
     ELSE Out(SignResult(env.wallet,
                StellarPaymentPayload(self, paymentInfo, amountStroops.v,
                  SorobanEntry(self, nonce, signatureExpirationLedger, invocation),
                  nonce, signatureExpirationLedger)),
              <<getLatestLedger,
                [to |-> "wallet", method |-> "signAuthEntry",
                 preimage |-> SorobanPreimage(nonce, signatureExpirationLedger, invocation)]>>)

\* ---- NEARProvider ----

NEARProvider == [kind |-> "near", accountId |-> Null, publicKey |-> FALSE]

\* The wallet objects a page can offer: window.nearWalletSelector,
\* window.myNearWallet, window.near.wallet.
NEARWallets == {"nearWalletSelector", "myNearWallet", "near.wallet"}

NEARconnect(self, wallet, env) ==
  IF env.wallet = "absent" THEN Done(self, X402Error("WALLET_NOT_FOUND"), <<>>)
  ELSE IF env.wallet # "ok" THEN Done(self, ConnectError(env.wallet), <<Wallet("signIn")>>)
  \* fetchPublicKey swallows the failure of its RPC call
  ELSE Done([self EXCEPT !.accountId = Str(nearAccount),
                         !.publicKey = IF env.next = "ok" THEN TRUE ELSE self.publicKey],
            Resolved(Str(nearAccount)), <<Wallet("signIn"), Rpc("view_access_key_list")>>)

NEARsignPayment(self, paymentInfo, chainConfig, wallet, env) ==
  LET amount == BigInt(floorTimes(parseFloat(paymentInfo.amount), 1000000))
  IN IF ~Truthy(self.accountId) \/ ~self.publicKey
     THEN Out(X402Error("WALLET_NOT_CONNECTED"), <<>>)
     ELSE IF amount.t = "Error" THEN Out(amount, <<>>)
     ELSE IF env.rpc = 1 THEN Out(X402Error("PAYMENT_FAILED"), <<Rpc("view_access_key")>>)
     ELSE IF env.rpc = 2
          THEN Out(X402Error("PAYMENT_FAILED"), <<Rpc("view_access_key"), Rpc("block")>>)
     \* signMessage: only window.myNearWallet can sign
     ELSE IF wallet # "myNearWallet"
          THEN Out(X402Error("PAYMENT_FAILED"), <<Rpc("view_access_key"), Rpc("block")>>)
     ELSE Out(SignResult(env.wallet, Payload(paymentInfo.recipient, amount.v)),
              <<Rpc("view_access_key"), Rpc("block"), Wallet("signMessage")>>)

\* ---- getBalance ----

\* A request together with how it ended: "ok", or "failed" (the node or
\* the server could not be reached, or answered with an error).
Ended(request, outcome) ==
  [to |-> request.to, method |-> request.method, outcome |-> outcome]

\* (units / 10^decimals).toFixed(2), for amounts that need no rounding of
\* a binary fraction.
toFixed2(units, decimals) ==
  LET cents == (units * 100 + Pow10(decimals) \div 2) \div Pow10(decimals)
  IN Dec(cents \div 100) \o <<46, 48 + ((cents % 100) \div 10), 48 + (cents % 10)>>

zeroBalance == Str(U("0.00"))

\* NEARProvider.getBalance; rpc: how the ft_balance_of query ended, units:
\* the balance it reports.
NEARgetBalance(self, chainConfig, rpc, units) ==
  IF ~Truthy(self.accountId) THEN Out(X402Error("WALLET_NOT_CONNECTED"), <<>>)
  ELSE IF rpc # "ok" THEN Out(Resolved(zeroBalance), <<Ended(Rpc("query"), rpc)>>)
  ELSE Out(Resolved(Str(toFixed2(units, 6))), <<Ended(Rpc("query"), rpc)>>)

\* StellarProvider.getBalance; http: how the request to Horizon ended
\* ("404": no such account), units: the USDC balance of the account in
\* units of 10^-7, -1 when it has no USDC balance.
StellarGetBalance(self, chainConfig, http, units) ==
  IF ~Truthy(self.publicKey) THEN Out(X402Error("WALLET_NOT_CONNECTED"), <<>>)
  ELSE IF http = "404" THEN Out(Resolved(zeroBalance), <<Ended(Rpc("accounts"), "ok")>>)
  ELSE IF http # "ok" THEN Out(Resolved(zeroBalance), <<Ended(Rpc("accounts"), http)>>)
  ELSE IF units < 0 THEN Out(Resolved(zeroBalance), <<Ended(Rpc("accounts"), http)>>)
  ELSE Out(Resolved(Str(toFixed2(units, 7))), <<Ended(Rpc("accounts"), http)>>)

\* ---- AlgorandProvider ----

\* walletType
lute == Str(U("lute"))
pera == Str(U("pera"))

AlgorandProvider ==
  [kind |-> "algorand", address |-> Null, walletType |-> Null, luteWallet |-> FALSE,
   peraWallet |-> FALSE]

\* algosdk's address decoding: 58 characters of base32.
AlgorandAddressAccepts(x) ==
  /\ x.t = "string"
  /\ Len(x.v) = 58
  /\ \A i \in 1..58 : isUpper(x.v[i]) \/ (x.v[i] >= 50 /\ x.v[i] <= 55)

\* connect: Lute when the page has it (env.wallet is its answer), Pera when
\* Lute is absent or fails (env.next is its answer).
AlgorandConnect(self, env) ==
  LET isLuteAvailable == env.wallet # "absent"
      tried == IF isLuteAvailable THEN [self EXCEPT !.luteWallet = TRUE] ELSE self
      luteCalls == IF isLuteAvailable THEN <<Wallet("lute.connect")>> ELSE <<>>
  IN IF isLuteAvailable /\ env.wallet = "ok"
     THEN Done([tried EXCEPT !.address = Str(algorandAccount), !.walletType = lute],
               Resolved(Str(algorandAccount)), luteCalls)
     ELSE IF env.next # "ok"
          THEN Done([tried EXCEPT !.peraWallet = TRUE], ConnectError(env.next),
                    luteCalls \o <<Wallet("pera.reconnectSession")>>)
     ELSE Done([tried EXCEPT !.peraWallet = TRUE, !.address = Str(algorandAccount),
                             !.walletType = pera],
               Resolved(Str(algorandAccount)),
               luteCalls \o <<Wallet("pera.reconnectSession")>>)

AlgorandDisconnect(self) ==
  [self EXCEPT !.luteWallet = IF self.walletType = lute THEN FALSE ELSE @,
               !.peraWallet = IF self.walletType = pera THEN FALSE ELSE @,
               !.address = Null, !.walletType = Null]

\* facilitator: FACILITATOR_ADDRESSES.algorand
FACILITATOR_ALGORAND == U("SXHRBXS22SKKXHXK44DTQMWN2SXK3SFJWBDAQZGF4DRPW7PNFAUM2GYFAQ")

\* The object given to algosdk's make...TxnWithSuggestedParamsFromObject,
\* as far as modelled; minFee comes with the spread of suggestedParams.
AlgorandTxn(type, sender, receiver, amount, fee, suggestedParams) ==
  [type |-> type, sender |-> sender, receiver |-> receiver, amount |-> amount,
   fee |-> fee, flatFee |-> TRUE, minFee |-> suggestedParams.minFee]

\* algosdk.assignGroupID: every transaction gets the id computed from all
\* of them (here: the list itself).
assignGroupID(txns) == [i \in 1..Len(txns) |-> [txn |-> txns[i], group |-> txns]]

\* A request to the wallet to sign the transactions listed.
WalletSign(method, txns) == [to |-> "wallet", method |-> method, txns |-> txns]

\* The two-transaction group of signPayment: the facilitator's fee payment
\* and the payer's asset transfer.
AlgorandGroup(self, paymentInfo, amount, suggestedParams) ==
  LET facilitatorAddress ==
        IF Truthy(paymentInfo.facilitator) THEN paymentInfo.facilitator
        ELSE Str(FACILITATOR_ALGORAND)
      feeTxn == AlgorandTxn("pay", facilitatorAddress, facilitatorAddress, 0, 2000,
                            suggestedParams)
      paymentTxn == AlgorandTxn("axfer", self.address, paymentInfo.recipient, amount, 0,
                                suggestedParams)
  IN assignGroupID(<<feeTxn, paymentTxn>>)

\* A builder that passes the whole group to the wallet and returns what an
\* account owning both transactions would sign.
AlgorandPayloadAllSigned(self, txnGroup) ==
  Resolved([paymentIndex |-> 1,
            paymentGroup |-> <<[txn |-> txnGroup[1], sig |-> self.address],
                               [txn |-> txnGroup[2], sig |-> self.address]>>])

\* The payload: the fee transaction encoded unsigned, the payment
\* transaction as the wallet signed it for the connected account.
AlgorandPayload(self, txnGroup) ==
  Resolved([paymentIndex |-> 1,
            paymentGroup |-> <<[txn |-> txnGroup[1], sig |-> Null],
                               [txn |-> txnGroup[2], sig |-> self.address]>>])

AlgorandSignPayment(self, paymentInfo, chainConfig, suggestedParams, env) ==
  LET amount == floorTimes(parseFloat(paymentInfo.amount), 1000000)
      txnGroup == AlgorandGroup(self, paymentInfo, amount.v, suggestedParams)
      badAmount == amount = NaN \/ (amount.v < 0 /\ env.lib = "throw")
      wallet == IF self.walletType = lute /\ self.luteWallet THEN "lute.signTxns"
                ELSE IF self.walletType = pera /\ self.peraWallet
                     THEN "pera.signTransaction"
                ELSE ""
  IN IF ~Truthy(self.address) \/ ~Truthy(self.walletType)
     THEN Out(X402Error("WALLET_NOT_CONNECTED"), <<>>)
     ELSE IF env.rpc # 0
          THEN Out(X402Error("PAYMENT_FAILED"), <<Rpc("getTransactionParams")>>)
     ELSE IF ~AlgorandAddressAccepts(paymentInfo.recipient) \/ badAmount
          THEN Out(X402Error("PAYMENT_FAILED"), <<Rpc("getTransactionParams")>>)
     ELSE IF wallet = ""
          THEN Out(X402Error("WALLET_NOT_CONNECTED"), <<Rpc("getTransactionParams")>>)
     ELSE Out(SignResult(env.wallet, AlgorandPayload(self, txnGroup)),
              <<Rpc("getTransactionParams"),
                WalletSign(wallet, <<[txn |-> txnGroup[1], signers |-> <<>>],
                                     [txn |-> txnGroup[2]]>>)>>)

\* ---- SuiProvider ----

\* provider: "" for null, else which signing method the wallet object has.
SuiProvider == [kind |-> "sui", provider |-> "", address |-> Null]

SuiWallets == {"signTransaction", "signTransactionBlock", "neither"}

\* The Sui SDK's address check: 0x and 64 hexadecimal digits.
SuiAddressAccepts(x) ==
  /\ x.t = "string"
  /\ Len(x.v) = 66 /\ x.v[1] = 48 /\ x.v[2] = 120
  /\ \A i \in 3..66 : isHex(x.v[i])

SuiConnect(self, wallet, env) ==
  IF env.wallet = "absent"
  THEN Done([self EXCEPT !.provider = ""], X402Error("WALLET_NOT_FOUND"), <<>>)
  ELSE IF env.wallet # "ok"
       THEN Done([self EXCEPT !.provider = wallet], ConnectError(env.wallet),
                 <<Wallet("requestPermissions")>>)
  ELSE IF env.next # "ok"
       THEN Done([self EXCEPT !.provider = wallet], X402Error("WALLET_CONNECTION_FAILED"),
                 <<Wallet("requestPermissions"), Wallet("getAccounts")>>)
  ELSE Done([self EXCEPT !.provider = wallet, !.address = Str(suiAccount)],
            Resolved(Str(suiAccount)),
            <<Wallet("requestPermissions"), Wallet("getAccounts")>>)

\* balance: the total of the USDC coins getCoins reports.
\* The coin object getCoins reports for the owner.
suiCoin == Str(U("0x6666666666666666666666666666666666666666666666666666666666666666"))

\* The programmable transaction of signPayment: sender, gas owner, the
\* coin split and the transfer of the split coin.
SuiTransaction(self, paymentInfo, amount, coinToUse) ==
  [sender |-> self.address, gasOwner |-> paymentInfo.facilitator,
   splitCoins |-> [coin |-> coinToUse, amount |-> amount],
   transferObjects |-> paymentInfo.recipient]

\* The payload object of signPayment; the wallet signs for the connected
\* account.
SuiPaymentPayload(self, paymentInfo, amount, tx) ==
  Resolved([transactionBytes |-> tx, senderSignature |-> self.address,
            from |-> self.address, to |-> paymentInfo.recipient,
            amount |-> Str(toString(amount))])

SuiSignPayment(self, paymentInfo, chainConfig, balance, env) ==
  LET amount == BigInt(floorTimes(parseFloat(paymentInfo.amount), 1000000))
      unbuildable == ~SuiAddressAccepts(paymentInfo.recipient) \/ amount.v < 0
  IN IF self.provider = "" \/ ~Truthy(self.address)
     THEN Out(X402Error("WALLET_NOT_CONNECTED"), <<>>)
     ELSE IF ~Truthy(paymentInfo.facilitator) THEN Out(X402Error("INVALID_CONFIG"), <<>>)
     ELSE IF amount.t = "Error" THEN Out(amount, <<>>)
     ELSE IF env.rpc = 1 THEN Out(RawError("Error"), <<Rpc("getCoins")>>)
     ELSE IF balance = 0 \/ balance < amount.v
          THEN Out(X402Error("INSUFFICIENT_BALANCE"), <<Rpc("getCoins")>>)
     \* transferObjects, splitCoins and tx.build are outside the try block
     ELSE IF unbuildable /\ env.lib = "throw" THEN Out(RawError("Error"), <<Rpc("getCoins")>>)
     ELSE IF env.rpc = 2 THEN Out(RawError("Error"), <<Rpc("getCoins"), Rpc("build")>>)
     ELSE IF self.provider = "neither"
          THEN Out(X402Error("WALLET_NOT_SUPPORTED"), <<Rpc("getCoins"), Rpc("build")>>)
     ELSE Out(SignResult(env.wallet,
                         SuiPaymentPayload(self, paymentInfo, amount.v,
                                           SuiTransaction(self, paymentInfo, amount.v,
                                                          suiCoin))),
              <<Rpc("getCoins"), Rpc("build"), Wallet(self.provider)>>)

\* ---- The builders and their callers ----

\* disconnect(), per adapter.
disconnect(self) ==
  IF self.kind = "evm"
  THEN [self EXCEPT !.provider = FALSE, !.signer = Null, !.address = Null,
                    !.chainName = Null]
  ELSE IF self.kind = "svm"
       THEN [self EXCEPT !.provider = FALSE, !.publicKey = FALSE, !.address = Null]
  ELSE IF self.kind = "stellar" THEN [self EXCEPT !.publicKey = Null]
  ELSE IF self.kind = "near" THEN [self EXCEPT !.accountId = Null, !.publicKey = FALSE]
  ELSE IF self.kind = "algorand" THEN AlgorandDisconnect(self)
  ELSE [self EXCEPT !.provider = "", !.address = Null]

Providers ==
  {EVMProvider, SVMProvider, StellarProvider, NEARProvider, AlgorandProvider, SuiProvider}

\* The addresses payments are sent to.
evmMerchant == U("0x3333333333333333333333333333333333333333")
svmMerchant == U("9WzDXwBbmkg8ZTbNMqUxvQRAyrZzDsGYdLVL9zYtAWWM")
stellarMerchant == U("GBBM6BKZPEHWYO3E3YKREDPQXMS4VK35YLNU7NFBRI26RAN7GI5POFBB")
nearMerchant == U("merchant.near")
algorandMerchant == U("MERCHANT2MERCHANT2MERCHANT2MERCHANT2MERCHANT2MERCHANT2MERC")
suiMerchant == U("0x4444444444444444444444444444444444444444444444444444444444444444")

Merchant(kind) ==
  IF kind = "evm" THEN evmMerchant
  ELSE IF kind = "svm" THEN svmMerchant
  ELSE IF kind = "stellar" THEN stellarMerchant
  ELSE IF kind = "near" THEN nearMerchant
  ELSE IF kind = "algorand" THEN algorandMerchant
  ELSE suiMerchant

\* paymentInfo.facilitator: the relayer that pays the fees.
svmFacilitator == U("F742C4VfFLQ9zRQyithoj5229ZgtX2WqKCSFKgH2EThq")
suiFacilitator == U("0x5555555555555555555555555555555555555555555555555555555555555555")

\* paymentInfo.recipient, as callers pass it.
Recipients(kind) ==
  {Undefined, Str(<<>>), Str(U("   ")), Str(U("nope!")), Str(Merchant(kind))}
    \cup (IF kind = "evm" THEN {Str(U(" ") \o Merchant(kind))} ELSE {})

\* paymentInfo.amount, as callers pass it.
Amounts == {Undefined, Str(<<>>), Str(U("abc")), Str(U("0")), Str(U("-1")), Str(U("1.00"))}

\* paymentInfo.facilitator: the adapters of Solana and Sui require it.
Facilitators(kind) ==
  IF kind = "svm" THEN {Undefined, Str(svmFacilitator)}
  ELSE IF kind = "sui" THEN {Undefined, Str(suiFacilitator)}
  ELSE {Undefined}

PaymentInfos(kind) ==
  [recipient : Recipients(kind), amount : Amounts, facilitator : Facilitators(kind)]

\* What the wallet answers to a connection request, and what the step
\* after it does.
ConnectEnvs == [wallet : {"absent", "ok", "reject", "fail"}, next : {"ok", "fail"}]

\* What the environment does during signPayment: which RPC call fails
\* (0: none), what the wallet answers, whether a library accepts a value
\* its documentation does not cover.  At most one of them goes wrong in a
\* call.
SignEnvs(rpcs, libs) ==
  {env \in [rpc : rpcs, wallet : {"ok", "reject", "fail"}, lib : libs] :
     \/ env.rpc = 0 /\ env.lib = "ok"
     \/ env.rpc = 0 /\ env.wallet = "ok"
     \/ env.wallet = "ok" /\ env.lib = "ok"}

\* What algod answers to getTransactionParams, as far as used: the
\* network's minimum fee, in microAlgos.
SuggestedParams == [minFee : {1000, 2000}]

solanaChain == ChainConfig("solana", 0, "svm")
stellarChain == ChainConfig("stellar", 0, "stellar")
nearChain == ChainConfig("near", 0, "near")
algorandChain == ChainConfig("algorand", 0, "algorand")
suiChain == ChainConfig("sui", 0, "sui")
EvmChains == {ChainConfig("base", 8453, "evm"), ChainConfig("mychain", 31337, "evm")}
ChainNames == {Undefined, Str(U("base")), Str(U("solana")), Str(U("mychain"))}

\* The time of the calls to the builders.
StartTime == 1000000500

InitBuilders ==
  /\ fn = "" /\ args = <<>> /\ ret = Undefined /\ calls = <<>>
  /\ adapter \in Providers
  /\ NoEnvelope
  /\ clock = StartTime
  /\ NoWindow

Returns(name, arguments, out) ==
  /\ fn' = name
  /\ args' = arguments
  /\ ret' = out.ret
  /\ calls' = out.calls
  /\ UNCHANGED <<header, wire, clock, chains, ethereum>>

Connects(arguments, out) ==
  /\ adapter' = out.self
  /\ Returns("connect", arguments, out)

Signs(arguments, out) ==
  /\ UNCHANGED adapter
  /\ Returns("signPayment", arguments, out)

ConnectEVM ==
  /\ adapter.kind = "evm"
  /\ \E chainName \in ChainNames, env \in ConnectEnvs :
       Connects(<<chainName>>, EVMconnect(adapter, chainName, <<evmAccount>>, env))

SignPaymentEVM ==
  /\ adapter.kind = "evm"
  /\ \E paymentInfo \in PaymentInfos("evm"), chainConfig \in EvmChains,
        env \in SignEnvs({0}, {"ok", "throw"}) :
       Signs(<<paymentInfo, chainConfig>>,
             EVMsignPayment(adapter, paymentInfo, chainConfig, clock, env))

ConnectSVM ==
  /\ adapter.kind = "svm"
  /\ \E env \in ConnectEnvs : Connects(<<>>, SVMconnect(adapter, env))

SignPaymentSVM ==
  /\ adapter.kind = "svm"
  /\ \E paymentInfo \in PaymentInfos("svm"), toTokenAccountInfo \in {Null, Str(svmMerchant)},
        env \in SignEnvs({0, 1, 2}, {"ok", "throw"}) :
       Signs(<<paymentInfo, solanaChain>>,
             SVMsignPayment(adapter, paymentInfo, solanaChain, toTokenAccountInfo, env))

ConnectStellar ==
  /\ adapter.kind = "stellar"
  /\ \E env \in ConnectEnvs : Connects(<<>>, StellarConnect(adapter, env))

SignPaymentStellar ==
  /\ adapter.kind = "stellar"
  /\ \E paymentInfo \in PaymentInfos("stellar"), currentLedger \in {1, 54000000},
        nonce \in {0, 90071992}, env \in SignEnvs({0, 1}, {"ok"}) :
       Signs(<<paymentInfo, stellarChain>>,
             StellarSignPayment(adapter, paymentInfo, stellarChain, currentLedger, nonce, env))

ConnectNEAR ==
  /\ adapter.kind = "near"
  /\ \E wallet \in NEARWallets, env \in ConnectEnvs :
       Connects(<<>>, NEARconnect(adapter, wallet, env))

SignPaymentNEAR ==
  /\ adapter.kind = "near"
  /\ \E paymentInfo \in PaymentInfos("near"), wallet \in NEARWallets,
        env \in SignEnvs({0, 1, 2}, {"ok"}) :
       Signs(<<paymentInfo, nearChain>>,
             NEARsignPayment(adapter, paymentInfo, nearChain,
                             wallet, env))

GetBalanceNEAR ==
  /\ adapter.kind = "near"
  /\ \E rpc \in {"ok", "failed"}, units \in {0, 1500000} :
       /\ UNCHANGED adapter
       /\ Returns("getBalance", <<nearChain>>, NEARgetBalance(adapter, nearChain, rpc, units))

GetBalanceStellar ==
  /\ adapter.kind = "stellar"
  /\ \E http \in {"ok", "404", "failed"}, units \in {-1, 0, 15000000} :
       /\ UNCHANGED adapter
       /\ Returns("getBalance", <<stellarChain>>,
                  StellarGetBalance(adapter, stellarChain, http, units))

ConnectAlgorand ==
  /\ adapter.kind = "algorand"
  /\ \E env \in ConnectEnvs : Connects(<<>>, AlgorandConnect(adapter, env))

SignPaymentAlgorand ==
  /\ adapter.kind = "algorand"
  /\ \E paymentInfo \in PaymentInfos("algorand"), suggestedParams \in SuggestedParams,
        env \in SignEnvs({0, 1}, {"ok", "throw"}) :
       Signs(<<paymentInfo, algorandChain>>,
             AlgorandSignPayment(adapter, paymentInfo, algorandChain, suggestedParams, env))

ConnectSui ==
  /\ adapter.kind = "sui"
  /\ \E wallet \in SuiWallets, env \in ConnectEnvs :
       Connects(<<>>, SuiConnect(adapter, wallet, env))

SignPaymentSui ==
  /\ adapter.kind = "sui"
  /\ \E paymentInfo \in PaymentInfos("sui"), balance \in {0, 5000000},
        env \in SignEnvs({0, 1, 2}, {"ok", "throw"}) :
       Signs(<<paymentInfo, suiChain>>,
             SuiSignPayment(adapter, paymentInfo, suiChain,
                            balance, env))

Disconnect ==
  /\ adapter' = disconnect(adapter)
  /\ fn' = "disconnect"
  /\ args' = <<>>
  /\ ret' = Resolved(Undefined)
  /\ calls' = <<>>
  /\ UNCHANGED <<header, wire, clock, chains, ethereum>>

NextBuilders ==
  \/ ConnectEVM \/ SignPaymentEVM
  \/ ConnectSVM \/ SignPaymentSVM
  \/ ConnectStellar \/ SignPaymentStellar \/ GetBalanceStellar
  \/ ConnectNEAR \/ SignPaymentNEAR \/ GetBalanceNEAR
  \/ ConnectAlgorand \/ SignPaymentAlgorand
  \/ ConnectSui \/ SignPaymentSui
  \/ Disconnect

SpecBuilders == InitBuilders /\ [][NextBuilders]_vars

\* ---- Claims about the builders ----

\* The guard at the head of each signPayment: the adapter holds a wallet.
Connected(self) ==
  IF self.kind = "evm" THEN Truthy(self.signer) /\ Truthy(self.address)
  ELSE IF self.kind = "svm" THEN self.provider /\ self.publicKey /\ Truthy(self.address)
  ELSE IF self.kind = "stellar" THEN Truthy(self.publicKey)
  ELSE IF self.kind = "near" THEN Truthy(self.accountId) /\ self.publicKey
  ELSE IF self.kind = "algorand" THEN Truthy(self.address) /\ Truthy(self.walletType)
  ELSE self.provider # "" /\ Truthy(self.address)

\* A signPayment call has returned on an adapter that holds a wallet, and
\* not with the error of a missing chain or facilitator configuration.
SignedWhileConnected ==
  /\ fn = "signPayment"
  /\ Connected(adapter)
  /\ ret \notin {X402Error("CHAIN_NOT_SUPPORTED"), X402Error("INVALID_CONFIG")}

IsBlank(x) == x.t = "string" /\ trim(x.v) = <<>>

\* C2: in every adapter, a signPayment call whose recipient is empty or
\* consists of white space only (and whose amount is a positive number) is
\* rejected with INVALID_RECIPIENT, and no RPC call or wallet request has
\* been issued by then.
C2_BlankRecipientRejected ==
  (/\ SignedWhileConnected
   /\ IsBlank(args[1].recipient)
   /\ validateAmount(args[1].amount) = Undefined)
    => (ret = X402Error("INVALID_RECIPIENT") /\ calls = <<>>)

\* C3: in every adapter, a signPayment call whose amount is missing, not a
\* number, zero or negative (and whose recipient is a well-formed address
\* of the network) is rejected with INVALID_AMOUNT, and no RPC call or
\* wallet request has been issued by then.
C3_BadAmountRejected ==
  (/\ SignedWhileConnected
   /\ args[1].recipient = Str(Merchant(adapter.kind))
   /\ validateAmount(args[1].amount) # Undefined)
    => (ret = X402Error("INVALID_AMOUNT") /\ calls = <<>>)

\* C4: whatever connect or signPayment throws is an X402Error whose code is
\* one of the taxonomy's, never the error of a library, an RPC node or a
\* wallet as it was raised.
C4_OnlyTaxonomyErrors ==
  (fn \in {"connect", "signPayment"} /\ ret.t # "resolved")
    => (ret.t = "X402Error" /\ ret.code \in X402ErrorCode)

---------------------------------------------------------------------------
(* The other EVM signing paths: X402Client (client/X402Client.ts) and the
   wagmi adapter (adapters/wagmi.ts).                                     *)

\* ---- X402Client ----

X402Client ==
  [kind |-> "client", provider |-> FALSE, signer |-> Null, connectedAddress |-> Null,
   currentChainName |-> Null]

\* emit with the handler's exception left to propagate.
emitUncaught(event, throwing) ==
  [issued |-> <<Emitted(event)>>, thrown |-> event \in throwing]

\* emit: every handler of the event is called inside try/catch, so that
\* the exception of a handler (throwing: the events whose handler throws)
\* is logged and goes no further.
emit(event, throwing) == [issued |-> <<Emitted(event)>>, thrown |-> FALSE]

\* connect and connectEVMWallet.  switchEVMChain has set currentChainName
\* and emitted chainChanged when a later step fails.
X402connect(self, chainName, accounts, env) ==
  LET targetChain == IF Truthy(chainName) THEN chainName.v ELSE DEFAULT_CHAIN
      chain == getChainByName(targetChain)
      started == [self EXCEPT !.provider = TRUE]
      switched == [started EXCEPT !.currentChainName = Str(chain.name)]
      chainChanged == emit("chainChanged", {})
      connect == emit("connect", {})
  IN IF chain = Undefined THEN Done(self, X402Error("CHAIN_NOT_SUPPORTED"), <<>>)
     ELSE IF chain.networkType # evm
          THEN Done(self, X402Error("CHAIN_NOT_SUPPORTED"), <<>>)
     ELSE IF env.wallet = "absent" THEN Done(self, X402Error("WALLET_NOT_FOUND"), <<>>)
     ELSE IF env.wallet # "ok"
          THEN Done(started, ConnectError(env.wallet), <<Wallet("eth_requestAccounts")>>)
     ELSE IF env.next = "fail"
          THEN Done(started, X402Error("UNKNOWN_ERROR"),
                    <<Wallet("eth_requestAccounts"), Wallet("wallet_switchEthereumChain")>>)
     ELSE IF env.next = "signer"
          THEN Done(switched, X402Error("UNKNOWN_ERROR"),
                    <<Wallet("eth_requestAccounts"), Wallet("wallet_switchEthereumChain")>>
                      \o chainChanged.issued \o <<Wallet("eth_accounts")>>)
     ELSE Done([switched EXCEPT !.signer = Str(accounts[1]),
                                !.connectedAddress = Str(accounts[1])],
               Resolved(Str(accounts[1])),
               <<Wallet("eth_requestAccounts"), Wallet("wallet_switchEthereumChain")>>
                 \o chainChanged.issued \o <<Wallet("eth_accounts")>> \o connect.issued)

X402disconnect(self) ==
  [self EXCEPT !.provider = FALSE, !.signer = Null, !.connectedAddress = Null,
               !.currentChainName = Null]

\* createPayment's catch clause: an X402Error passes, anything else
\* becomes PAYMENT_FAILED.
Wrapped(out) ==
  IF out.ret.t = "Error" THEN Out(X402Error("PAYMENT_FAILED"), out.calls) ELSE out

X402createEVMPayment(self, paymentInfo, chain, now, env, throwing) ==
  LET invalid == validateRecipient(paymentInfo.recipient, "evm")
      validAfter == 0
      validityWindowSeconds == IF chain.name = base THEN 300 ELSE 60
      validBefore == validBeforeOf(now, validityWindowSeconds)
      value == parseUnits(paymentInfo.amount, USDC_DECIMALS)
      \* from = await this.signer.getAddress()
      from == self.signer
      \* encodeEVMPaymentHeader: the numbers of the authorization as strings
      result == SignResult(env.wallet,
                           Authorization(from, paymentInfo.recipient,
                                         Str(toString(value.v)), Str(toString(validAfter)),
                                         Str(toString(validBefore))))
      paymentSigned == emit("paymentSigned", throwing)
      paymentCompleted == emit("paymentCompleted", throwing)
  IN IF ~Truthy(self.signer) THEN Out(X402Error("WALLET_NOT_CONNECTED"), <<>>)
     ELSE IF invalid # Undefined THEN Out(invalid, <<>>)
     ELSE IF value.t = "Error" THEN Out(value, <<>>)
     ELSE IF ~getAddressAccepts(paymentInfo.recipient.v) THEN Out(RawError("Error"), <<>>)
     ELSE IF value.v < 0 /\ env.lib = "throw" THEN Out(X402Error("PAYMENT_FAILED"), <<>>)
     ELSE IF result.t # "resolved" THEN Out(result, <<SignTypedData(self.signer)>>)
     ELSE IF paymentSigned.thrown
          THEN Out(RawError("Error"), <<SignTypedData(self.signer)>> \o paymentSigned.issued)
     ELSE IF paymentCompleted.thrown
          THEN Out(RawError("Error"),
                   <<SignTypedData(self.signer)>> \o paymentSigned.issued
                     \o paymentCompleted.issued)
     ELSE Out(result,
              <<SignTypedData(self.signer)>> \o paymentSigned.issued
                \o paymentCompleted.issued)

\* createPayment: paymentStarted is emitted before the try block; what the
\* block throws is wrapped, announced with paymentFailed and thrown again.
X402createPayment(self, paymentInfo, now, env, throwing) ==
  LET chain == getChainByName(self.currentChainName.v)
      paymentStarted == emit("paymentStarted", throwing)
      paymentFailed == emit("paymentFailed", throwing)
      body == IF chain.networkType # evm THEN Out(X402Error("CHAIN_NOT_SUPPORTED"), <<>>)
              ELSE X402createEVMPayment(self, paymentInfo, chain, now, env, throwing)
      caught == Wrapped(body)
  IN IF ~Truthy(self.connectedAddress) THEN Out(X402Error("WALLET_NOT_CONNECTED"), <<>>)
     ELSE IF ~Truthy(self.currentChainName) THEN Out(X402Error("CHAIN_NOT_SUPPORTED"), <<>>)
     ELSE IF chain = Undefined THEN Out(X402Error("CHAIN_NOT_SUPPORTED"), <<>>)
     ELSE IF paymentStarted.thrown THEN Out(RawError("Error"), paymentStarted.issued)
     ELSE IF body.ret.t = "resolved" THEN Out(body.ret, paymentStarted.issued \o body.calls)
     ELSE IF paymentFailed.thrown
          THEN Out(RawError("Error"),
                   paymentStarted.issued \o body.calls \o paymentFailed.issued)
     ELSE Out(caught.ret, paymentStarted.issued \o body.calls \o paymentFailed.issued)

\* ---- wagmi adapter ----

\* String.prototype.split(separator), for a separator of one code unit.
RECURSIVE splitAt(_, _)
splitAt(s, sep) ==
  IF ~includes(s, sep) THEN <<s>>
  ELSE LET i == CHOOSE k \in 1..Len(s) : s[k] = sep /\ \A j \in 1..(k - 1) : s[j] # sep
       IN <<SubSeq(s, 1, i - 1)>> \o splitAt(SubSeq(s, i + 1, Len(s)), sep)

\* String.prototype.padEnd(n, c) and slice(0, n).
padEnd(s, n, c) == s \o [i \in 1..(IF n > Len(s) THEN n - Len(s) ELSE 0) |-> c]
slice(s, n) == SubSeq(s, 1, IF n < Len(s) THEN n ELSE Len(s))

\* BigInt(string): white space trimmed, the empty string is 0n, else an
\* optional sign and decimal digits, else a SyntaxError.  The 0x, 0o and 0b
\* forms are left out.
BigIntOfString(s) ==
  LET t == trim(s)
      signed == Len(t) > 0 /\ t[1] \in {43, 45}
      digits == IF signed THEN Tail(t) ELSE t
      magnitude == parseInt(digits)
  IN IF t = <<>> THEN [t |-> "bigint", v |-> 0]
     ELSE IF digits = <<>> \/ \E i \in 1..Len(digits) : ~isDigit(digits[i])
          THEN RawError("SyntaxError")
     ELSE [t |-> "bigint", v |-> IF t[1] = 45 THEN 0 - magnitude ELSE magnitude]

\* parseUnits of adapters/wagmi.ts with the fraction left unpadded.
parseUnitsWagmiUnpadded(amount, decimals) ==
  IF amount.t # "string" THEN RawError("TypeError")
  ELSE LET parts == splitAt(amount.v, 46)
           integer == parts[1]
           fraction == IF Len(parts) >= 2 THEN parts[2] ELSE <<>>
       IN BigIntOfString(integer \o slice(fraction, decimals))

\* parseUnits of adapters/wagmi.ts
parseUnitsWagmi(amount, decimals) ==
  IF amount.t # "string" THEN RawError("TypeError")
  ELSE LET parts == splitAt(amount.v, 46)
           integer == parts[1]
           fraction == IF Len(parts) >= 2 THEN parts[2] ELSE <<>>
           paddedFraction == slice(padEnd(fraction, decimals, 48), decimals)
       IN BigIntOfString(integer \o paddedFraction)

createPaymentFromWalletClient(walletClient, options, now, env) ==
  LET chainName == IF options.chainName = Undefined THEN base ELSE options.chainName.v
      validitySeconds ==
        IF options.validitySeconds = Undefined THEN 300 ELSE options.validitySeconds.v
      chain == getChainByName(chainName)
      validAfter == 0
      validBefore == validBeforeOf(now, validitySeconds)
      value == parseUnitsWagmi(options.amount, USDC_DECIMALS)
  IN IF ~Truthy(walletClient) THEN Out(X402Error("WALLET_NOT_CONNECTED"), <<>>)
     ELSE IF chain = Undefined THEN Out(X402Error("CHAIN_NOT_SUPPORTED"), <<>>)
     ELSE IF chain.networkType # evm THEN Out(X402Error("CHAIN_NOT_SUPPORTED"), <<>>)
     ELSE IF value.t = "Error" THEN Out(value, <<>>)
     ELSE Out(SignResult(env.wallet,
                         Authorization(walletClient.address, options.recipient,
                                       Str(toString(value.v)), Str(toString(validAfter)),
                                       Str(toString(validBefore)))),
              <<Wallet("signTypedData")>>)

\* ---- The EVM signing paths and their callers ----

\* The wallet client a page gets from wagmi's useWalletClient.
walletClientOf(address) == [t |-> "object", address |-> address]

\* A page that signs through the wagmi adapter holds no SDK object, only
\* the wallet client (null until the wallet is connected).
WagmiPage == [kind |-> "wagmi", walletClient |-> Null]

avalancheChain == ChainConfig("avalanche", 43114, "evm")

MaxTicks == 2
TickMs == 500

EvmAmounts ==
  {Str(U("10.00")), Str(U("0.1")), Str(U(".5")), Str(U("7")), Str(U("1.2345678")),
   Str(U("abc"))}

EvmPaymentInfos ==
  [recipient : {Str(evmMerchant), Str(<<>>)}, amount : EvmAmounts, facilitator : {Undefined}]

WagmiPaymentOptions ==
  [recipient : {Str(evmMerchant)}, amount : EvmAmounts,
   chainName : {Undefined, Str(U("avalanche")), Str(U("solana"))},
   validitySeconds : {Undefined, Num(120)}]

EvmConnectNames == {Undefined, Str(U("avalanche")), Str(U("solana"))}

InitEvmPaths ==
  /\ fn = "" /\ args = <<>> /\ ret = Undefined /\ calls = <<>>
  /\ adapter \in {EVMProvider, X402Client, WagmiPage}
  /\ NoEnvelope
  /\ clock = StartTime
  /\ NoWindow

Tick ==
  /\ clock < StartTime + MaxTicks * TickMs
  /\ clock' = clock + TickMs
  /\ UNCHANGED <<fn, args, ret, header, wire, adapter, calls, chains, ethereum>>

ProviderConnect ==
  /\ adapter.kind = "evm"
  /\ \E chainName \in EvmConnectNames, env \in ConnectEnvs :
       Connects(<<chainName>>, EVMconnect(adapter, chainName, <<evmAccount>>, env))

ProviderSignPayment ==
  /\ adapter.kind = "evm"
  /\ \E paymentInfo \in EvmPaymentInfos,
        chainConfig \in {ChainConfig("base", 8453, "evm"), avalancheChain},
        env \in SignEnvs({0}, {"ok"}) :
       Signs(<<paymentInfo, chainConfig>>,
             EVMsignPayment(adapter, paymentInfo, chainConfig, clock, env))

ClientConnect ==
  /\ adapter.kind = "client"
  /\ \E chainName \in EvmConnectNames, env \in ConnectEnvs :
       Connects(<<chainName>>, X402connect(adapter, chainName, <<evmAccount>>, env))

ClientCreatePayment ==
  /\ adapter.kind = "client"
  /\ \E paymentInfo \in EvmPaymentInfos, env \in SignEnvs({0}, {"ok"}) :
       LET out == X402createPayment(adapter, paymentInfo, clock, env, {})
       IN /\ UNCHANGED adapter
          /\ Returns("createPayment", <<paymentInfo>>, out)

ClientDisconnect ==
  /\ adapter.kind = "client"
  /\ adapter' = X402disconnect(adapter)
  /\ fn' = "disconnect" /\ args' = <<>> /\ ret' = Resolved(Undefined) /\ calls' = <<>>
  /\ UNCHANGED <<header, wire, clock, chains, ethereum>>

\* The wallet connects and wagmi hands the page its wallet client.
UseWalletClient ==
  /\ adapter.kind = "wagmi"
  /\ adapter' = [adapter EXCEPT !.walletClient = walletClientOf(Str(evmAccount))]
  /\ fn' = "useWalletClient" /\ args' = <<>> /\ ret' = Resolved(Undefined) /\ calls' = <<>>
  /\ UNCHANGED <<header, wire, clock, chains, ethereum>>

CreatePaymentFromWalletClient ==
  /\ adapter.kind = "wagmi"
  /\ \E options \in WagmiPaymentOptions, env \in SignEnvs({0}, {"ok"}) :
       LET out == createPaymentFromWalletClient(adapter.walletClient, options, clock, env)
       IN /\ UNCHANGED adapter
          /\ Returns("createPaymentFromWalletClient", <<adapter.walletClient, options>>, out)

NextEvmPaths ==
  \/ Tick
  \/ ProviderConnect \/ ProviderSignPayment
  \/ ClientConnect \/ ClientCreatePayment \/ ClientDisconnect
  \/ UseWalletClient \/ CreatePaymentFromWalletClient

SpecEvmPaths == InitEvmPaths /\ [][NextEvmPaths]_vars

\* ---- Properties of the EVM signing paths ----

EvmSigners == {"signPayment", "createPayment", "createPaymentFromWalletClient"}

\* The last call returned an authorization.
IsAuthorization(x) == x.t = "resolved" /\ "validBefore" \in DOMAIN x.v

\* The number a field of the authorization holds, given as a number or as
\* its decimal string.
NumberOf(x) == IF x.t = "number" THEN x.v ELSE parseInt(x.v)

\* The name of the chain the last authorization was built for.
SigningChain ==
  IF fn = "signPayment" THEN args[2].name
  ELSE IF fn = "createPayment" THEN adapter.currentChainName.v
  ELSE getChainByName(IF args[2].chainName = Undefined THEN base
                      ELSE args[2].chainName.v).name

\* A step in which one of the EVM signing paths builds an authorization
\* (the clock stands still during a call).
BuildsAuthorization == clock' = clock /\ fn' \in EvmSigners /\ IsAuthorization(ret')

\* C11: on every EVM signing path the authorization built has validAfter = 0
\* and validBefore = (Unix time in seconds at build time) + W, with W = 300
\* when the chain's name is exactly "base" and W = 60 for any other chain.
C11_ValidityWindow ==
  [][BuildsAuthorization =>
       /\ NumberOf(ret'.v.validAfter) = 0
       /\ NumberOf(ret'.v.validBefore)
            = (clock \div 1000) + (IF SigningChain' = base THEN 300 ELSE 60)]_vars

\* The amount string the last signing call was given.
SigningAmount == IF fn = "createPaymentFromWalletClient" THEN args[2].amount ELSE args[1].amount

\* digits [. digits] with at least one digit, the fraction no longer than
\* decimals.
IsDecimalAmount(x, decimals) ==
  /\ x.t = "string"
  /\ LET intEnd == digitsEnd(x.v, 1)
         hasPoint == intEnd <= Len(x.v) /\ x.v[intEnd] = 46
         fracEnd == IF hasPoint THEN digitsEnd(x.v, intEnd + 1) ELSE intEnd
         fracLen == IF hasPoint THEN fracEnd - intEnd - 1 ELSE 0
     IN fracEnd = Len(x.v) + 1 /\ (intEnd - 1) + fracLen > 0 /\ fracLen <= decimals

\* amount * 10^decimals for a decimal amount, from the number the string
\* denotes.
ExactUnits(x, decimals) ==
  LET d == parseFloat(x) IN d.digits * Pow10(decimals - d.scale)

\* C12: on every EVM signing path, for a decimal amount string with at most
\* `decimals` fractional digits the value of the authorization is exactly
\* amount * 10^decimals ("10.00" at 6 decimals gives "10000000", "0.1"
\* gives "100000").
C12_ExactUnits ==
  (fn \in EvmSigners /\ IsAuthorization(ret) /\ IsDecimalAmount(SigningAmount, USDC_DECIMALS))
    => ret.v.value = Str(toString(ExactUnits(SigningAmount, USDC_DECIMALS)))

C12_Witness ==
  /\ fn = "createPaymentFromWalletClient"
  /\ IsAuthorization(ret)
  /\ SigningAmount = Str(U("0.1"))
  /\ ret.v.value = Str(U("100000"))

\* ---- Properties of the Algorand group ----

\* AlgorandProvider.signPayment has returned a payload.
AlgorandPaid == fn = "signPayment" /\ adapter.kind = "algorand" /\ ret.t = "resolved"

\* The facilitator (relayer) of the last Algorand payment.
AlgorandRelayer ==
  IF Truthy(args[1].facilitator) THEN args[1].facilitator ELSE Str(FACILITATOR_ALGORAND)

\* C13: every payload of AlgorandProvider.signPayment has paymentIndex 1
\* and a group of two: entry 0 the relayer's zero-amount payment to itself,
\* unsigned and given to the wallet with an empty signer list; entry 1 the
\* asset transfer signed by the payer; both carry the same group id and
\* transaction 1 has fee zero.
C13_AlgorandGroupShape ==
  AlgorandPaid =>
    LET g == ret.v.paymentGroup
        asked == calls[Len(calls)].txns
    IN /\ ret.v.paymentIndex = 1
       /\ Len(g) = 2
       /\ g[1].sig = Null
       /\ g[1].txn.txn.type = "pay"
       /\ g[1].txn.txn.sender = AlgorandRelayer
       /\ g[1].txn.txn.receiver = AlgorandRelayer
       /\ g[1].txn.txn.amount = 0
       /\ asked[1].txn = g[1].txn /\ asked[1].signers = <<>>
       /\ asked[2].txn = g[2].txn /\ "signers" \notin DOMAIN asked[2]
       /\ g[2].sig = adapter.address
       /\ g[2].txn.txn.type = "axfer"
       /\ g[2].txn.txn.sender = adapter.address
       /\ g[2].txn.txn.receiver = args[1].recipient
       /\ g[1].txn.group = g[2].txn.group
       /\ g[2].txn.txn.fee = 0

C13_Witness ==
  /\ AlgorandPaid
  /\ args[1].amount = Str(U("1.00"))
  /\ ret.v.paymentGroup[2].txn.txn.amount = 1000000
  /\ adapter.walletType = pera

\* C14: in every group AlgorandProvider.signPayment builds, the flat fee of
\* transaction 0 is at least twice the network's minimum fee, as the
\* suggested parameters fetched for the build give it.
C14_FeeCoversBoth ==
  AlgorandPaid =>
    LET feeTxn == ret.v.paymentGroup[1].txn.txn
    IN feeTxn.flatFee /\ feeTxn.fee >= 2 * feeTxn.minFee

\* ---- Properties of the sponsored transactions ----

\* SVMProvider.signPayment has returned a payload.
SVMPaid == fn = "signPayment" /\ adapter.kind = "svm" /\ ret.t = "resolved"

\* SuiProvider.signPayment has returned a payload.
SuiPaid == fn = "signPayment" /\ adapter.kind = "sui" /\ ret.t = "resolved"

\* C15: the fee payer of every message SVMProvider.signPayment builds is
\* the facilitator the caller supplied, not the connected account; the
\* sender of every transaction SuiProvider.signPayment builds is the
\* connected account and its gas owner is the facilitator supplied.
C15_RelayerPaysFees ==
  /\ SVMPaid =>
       /\ ret.v.transaction.message.payerKey = args[1].facilitator
       /\ ret.v.transaction.message.payerKey # adapter.address
  /\ SuiPaid =>
       /\ ret.v.transactionBytes.sender = adapter.address
       /\ ret.v.transactionBytes.gasOwner = args[1].facilitator

C15_Witness ==
  /\ SVMPaid
  /\ ret.v.transaction.message.payerKey = Str(svmFacilitator)
  /\ \E i \in 1..Len(ret.v.transaction.message.instructions) :
       LET instruction == ret.v.transaction.message.instructions[i]
       IN instruction.type = "TransferChecked" /\ instruction.owner = Str(svmAccount)

C15_WitnessSui ==
  /\ SuiPaid
  /\ ret.v.transactionBytes.gasOwner = Str(suiFacilitator)
  /\ ret.v.transactionBytes.sender = Str(suiAccount)

\* C16: the payload of SuiProvider.signPayment has exactly the fields
\* transactionBytes, senderSignature, from, to, amount and coinObjectId,
\* and coinObjectId names the coin the payment was split from.
C16_SuiPayloadFields ==
  SuiPaid =>
    /\ DOMAIN ret.v = {"transactionBytes", "senderSignature", "from", "to", "amount",
                       "coinObjectId"}
    /\ ret.v.coinObjectId = ret.v.transactionBytes.splitCoins.coin

----------------------------------------------------------------------------
(* backend: reading a payment from the headers of a request *)

\* parsePaymentHeader without its catch clause.
parsePaymentHeaderNoCatch(headerValue) ==
  IF ~Truthy(headerValue) THEN Null ELSE decodeX402Header(headerValue.v)

parsePaymentHeader(headerValue) ==
  IF ~Truthy(headerValue) THEN Null
  ELSE LET decoded == decodeX402Header(headerValue.v)
       IN IF IsThrow(decoded) THEN Null ELSE decoded

\* The loop of extractPaymentFromHeaders over Object.entries(headers), from
\* entry i on.
RECURSIVE normalizeHeaders(_, _, _)
normalizeHeaders(entries, i, normalizedHeaders) ==
  IF i > Len(entries) THEN normalizedHeaders
  ELSE LET key == entries[i][1]
           value == entries[i][2]
       IN normalizeHeaders(entries, i + 1,
            IF value.t = "string"
            THEN SetField(normalizedHeaders, toLowerCase(key), value)
            ELSE IF value.t = "array" /\ Len(value.v) > 0
                 THEN SetField(normalizedHeaders, toLowerCase(key), value.v[1])
            ELSE normalizedHeaders)

xPayment == U("x-payment")
paymentSignature == U("payment-signature")

extractPaymentFromHeaders(headers) ==
  LET normalizedHeaders == Obj(normalizeHeaders(headers.v, 1, <<>>))
      first == Field(normalizedHeaders, xPayment)
      headerValue == IF Truthy(first) THEN first ELSE Field(normalizedHeaders, paymentSignature)
  IN parsePaymentHeader(headerValue)

\* ---- The requests a server reads ----

v1Envelope == createX402V1Header(U("base"), solanaPayload(U("AQID")))
v2Envelope == createX402V2Header(U("base"), solanaPayload(U("AQID")), Undefined)

notBase64 == Str(U("!!not-base64!!"))
notJSON == btoa(U("{oops"))

\* Header values of a request: a decodable envelope of either version, the
\* empty string, text that is not base64, base64 of text that is not JSON.
HeaderStrings ==
  {encodeX402Header(v1Envelope), encodeX402Header(v2Envelope), Str(<<>>), notBase64, notJSON}

\* A header as the server's framework presents it: a string, a list of
\* strings, or undefined.
HeaderValues == HeaderStrings \cup {Undefined, Arr(<<>>), Arr(<<encodeX402Header(v1Envelope)>>)}

HeaderNames == {U("X-PAYMENT"), U("x-payment"), U("PAYMENT-SIGNATURE"), U("Payment-Signature")}

\* Header objects with at most MaxHeaders entries.
MaxHeaders == 2

HeaderEntries == HeaderNames \X HeaderValues

HeaderObjects ==
  {Obj(entries) : entries \in
     {e \in UNION {[1..n -> HeaderEntries] : n \in 0..MaxHeaders} :
        \A i, j \in 1..Len(e) : i # j => e[i][1] # e[j][1]}}

\* A server reads one request: the value of a header, or the headers.
InitBackend ==
  /\ fn = "" /\ ret = Undefined /\ NoEnvelope /\ NoAdapter /\ NoClock /\ NoWindow
  /\ args \in {<<x>> : x \in HeaderStrings \cup {Undefined, Null} \cup HeaderObjects}

ParsePaymentHeader ==
  /\ fn = "" /\ args[1].t # "object"
  /\ fn' = "parsePaymentHeader"
  /\ ret' = parsePaymentHeader(args[1])
  /\ UNCHANGED <<args, header, wire, adapter, calls, clock, chains, ethereum>>

ExtractPaymentFromHeaders ==
  /\ fn = "" /\ args[1].t = "object"
  /\ fn' = "extractPaymentFromHeaders"
  /\ ret' = extractPaymentFromHeaders(args[1])
  /\ UNCHANGED <<args, header, wire, adapter, calls, clock, chains, ethereum>>

NextBackend == ParsePaymentHeader \/ ExtractPaymentFromHeaders

SpecBackend == InitBackend /\ [][NextBackend]_vars

\* ---- Properties of the header readers ----

\* A header value that carries no payment: absent, empty, not base64, or
\* base64 of text that is not JSON.
CarriesNoPayment(x) ==
  \/ x.t \in {"undefined", "null"}
  \/ x.t = "string" /\ (x.v = <<>> \/ IsThrow(atob(x.v)) \/ IsThrow(JSONparse(atob(x.v).v)))

\* The value the server's framework gave for a header: the string, or the
\* first of a list of strings.
Presented(value) ==
  IF value.t = "array" THEN (IF Len(value.v) > 0 THEN value.v[1] ELSE Undefined) ELSE value

IsPaymentName(key) == toLowerCase(key) \in {xPayment, paymentSignature}

\* C17: parsePaymentHeader returns null, and throws nothing, for a header
\* value that is absent, empty, not base64 or base64 of text that is not
\* JSON; extractPaymentFromHeaders returns null, and throws nothing, when
\* every payment header of the request has such a value.
C17_UndecodableIsNoPayment ==
  /\ fn \in {"parsePaymentHeader", "extractPaymentFromHeaders"} => ~IsThrow(ret)
  /\ fn = "parsePaymentHeader" /\ CarriesNoPayment(args[1]) => ret = Null
  /\ (/\ fn = "extractPaymentFromHeaders"
      /\ \A i \in 1..Len(args[1].v) :
           IsPaymentName(args[1].v[i][1]) => CarriesNoPayment(Presented(args[1].v[i][2])))
     => ret = Null

C17_Witness ==
  /\ fn = "extractPaymentFromHeaders"
  /\ \E i \in 1..Len(args[1].v) : args[1].v[i] = <<U("X-PAYMENT"), notJSON>>
  /\ ret = Null

\* C18: extractPaymentFromHeaders returns the decoded payment whenever the
\* request carries a decodable envelope under X-PAYMENT or under
\* PAYMENT-SIGNATURE, in any letter case of the name, whatever the other
\* headers contain.
C18_EitherHeaderFound ==
  fn = "extractPaymentFromHeaders" =>
    LET carried == {i \in 1..Len(args[1].v) :
                      /\ IsPaymentName(args[1].v[i][1])
                      /\ ~CarriesNoPayment(Presented(args[1].v[i][2]))}
    IN carried # {} =>
         \E i \in carried : ret = JSONparse(atob(Presented(args[1].v[i][2]).v).v)

----------------------------------------------------------------------------
(* backend: FacilitatorClient.verify and FacilitatorClient.settle.  A call
   is a process: the request is sent, the response's status line and
   headers arrive, its body is read.  wire holds the call in progress.    *)

\* constructor
FacilitatorClient(options) ==
  [kind |-> "facilitator",
   timeout |-> IF Truthy(options.timeout) THEN options.timeout.v ELSE 30000]

\* A fetch request.
Fetch(path) == [to |-> "http", method |-> path]

\* The call up to its first await: the timer is set (timeoutId: the time
\* it is due), fetch is started.
StartRequest(self, path, now) ==
  [path |-> path, awaiting |-> "fetch", startedAt |-> now, timeoutId |-> now + self.timeout,
   ok |-> FALSE]

\* clearTimeout(timeoutId)
clearTimeout(request) == [request EXCEPT !.timeoutId = 0]

\* fetch has resolved with a response: the timer is cleared, the body is
\* awaited (response.text() or response.json()).
responseArrived(request, ok) ==
  [clearTimeout(request) EXCEPT !.awaiting = "body", !.ok = ok]

\* The result of a call that failed, per endpoint.
FailureResult(path) ==
  IF path = "/verify" THEN Resolved([isValid |-> FALSE]) ELSE Resolved([success |-> FALSE])

\* The result of a call whose response was read to its end.
CompleteResult(request) ==
  IF ~request.ok THEN FailureResult(request.path)
  ELSE IF request.path = "/verify" THEN Resolved([isValid |-> TRUE])
  ELSE Resolved([success |-> TRUE])

\* options.timeout, as callers pass it.
TimeoutOptions == {Undefined, Num(0), Num(TickMs), Num(2 * TickMs)}

InitFacilitator ==
  /\ fn = "" /\ args = <<>> /\ ret = Undefined /\ calls = <<>>
  /\ adapter \in {FacilitatorClient([timeout |-> timeout]) : timeout \in TimeoutOptions}
  /\ NoEnvelope
  /\ clock = StartTime
  /\ NoWindow

\* The timer of the call in progress is due.
TimerDue == wire # Undefined /\ wire.timeoutId # 0 /\ clock >= wire.timeoutId

\* Time passes; a timer that is due runs before more time passes.
TimePasses ==
  /\ clock < StartTime + MaxTicks * TickMs
  /\ ~TimerDue
  /\ clock' = clock + TickMs
  /\ UNCHANGED <<fn, args, ret, header, wire, adapter, calls, chains, ethereum>>

Starts(name, path) ==
  /\ fn' = name
  /\ args' = <<>>
  /\ ret' = Undefined
  /\ wire' = StartRequest(adapter, path, clock)
  /\ calls' = <<Fetch(path)>>
  /\ UNCHANGED <<header, adapter, clock, chains, ethereum>>

Verify ==
  /\ wire = Undefined
  /\ Starts("verify", "/verify")

Settle ==
  /\ wire = Undefined
  /\ Starts("settle", "/settle")

\* The response's status line and headers arrive: fetch resolves.
ResponseArrives ==
  /\ wire # Undefined /\ wire.awaiting = "fetch"
  /\ \E ok \in BOOLEAN : wire' = responseArrived(wire, ok)
  /\ UNCHANGED <<fn, args, ret, header, adapter, calls, clock, chains, ethereum>>

\* The call returns.
Returned(result) ==
  /\ ret' = result
  /\ wire' = Undefined
  /\ UNCHANGED <<fn, args, header, adapter, calls, clock, chains, ethereum>>

\* fetch rejects (no connection), or reading the body rejects: the catch
\* clause.
RequestFails ==
  /\ wire # Undefined
  /\ Returned(FailureResult(wire.path))

\* The body has been read to its end.
BodyArrives ==
  /\ wire # Undefined /\ wire.awaiting = "body"
  /\ Returned(CompleteResult(wire))

\* The timer runs: controller.abort() rejects what is awaited on the
\* signal.
TimerFires ==
  /\ TimerDue
  /\ ret' = FailureResult(wire.path)
  /\ wire' = Undefined
  /\ calls' = Append(calls, [to |-> "http", method |-> "abort"])
  /\ UNCHANGED <<fn, args, header, adapter, clock, chains, ethereum>>

NextFacilitator ==
  \/ TimePasses
  \/ Verify
  \/ Settle
  \/ ResponseArrives
  \/ RequestFails
  \/ BodyArrives
  \/ TimerFires

SpecFacilitator == InitFacilitator /\ [][NextFacilitator]_vars

\* C19: no call to verify or settle is still in progress later than the
\* client's timeout (30000 ms when none is configured) after it started.
C19_ResolvesWithinTimeout ==
  (adapter.kind = "facilitator" /\ wire # Undefined) =>
    clock <= wire.startedAt + adapter.timeout

\* ---- Failures inside the builders' operations ----

\* The requests of the last operation that are recorded with their end
\* and ended in failure.
FailedCalls ==
  {i \in 1..Len(calls) : "outcome" \in DOMAIN calls[i] /\ calls[i].outcome = "failed"}

\* C20: when an RPC, HTTP or wallet call made inside connect, getBalance or
\* signPayment has failed, the operation reports a failure to its caller,
\* and it has not made the failed call again.
C20_FailuresSurface ==
  (fn \in {"connect", "getBalance", "signPayment"} /\ FailedCalls # {}) =>
    /\ ret.t # "resolved"
    /\ \A i \in FailedCalls : \A j \in (i + 1)..Len(calls) : calls[j].method # calls[i].method

----------------------------------------------------------------------------
(* The chain registry and the clients of a page.  SUPPORTED_CHAINS is one
   object shared by every client and builder; chains holds its entries as
   far as a constructor can rewrite them.  A payment build is a process:
   it awaits the signer's address and then the signature; wire holds the
   build in flight.                                                       *)

\* SUPPORTED_CHAINS as the module defines it: base's rpcUrl and usdc.address.
RegistryAtLoad ==
  [base |-> [rpcUrl |-> "https://mainnet.base.org",
             usdc |-> "0x833589fCD6eDb6E08f4c7C32D4f71b54bdA02913"]]

\* The registry after the loop over config.rpcOverrides.
applyRpcOverrides(registry, rpcOverrides) ==
  [chainName \in DOMAIN registry |->
     IF chainName \in DOMAIN rpcOverrides
     THEN [registry[chainName] EXCEPT !.rpcUrl = rpcOverrides[chainName]]
     ELSE registry[chainName]]

\* The registry after the loop over config.customChains (Object.assign, as
\* far as usdc.address goes).
applyCustomChains(registry, customChains) ==
  [chainName \in DOMAIN registry |->
     IF chainName \in DOMAIN customChains
     THEN [registry[chainName] EXCEPT !.usdc = customChains[chainName]]
     ELSE registry[chainName]]

\* What new X402Client(config) leaves in the registry.
X402ClientConstructor(registry, config) ==
  applyCustomChains(applyRpcOverrides(registry, config.rpcOverrides), config.customChains)

\* createEVMPayment up to its first await: the EIP-712 domain is read from
\* the chain's entry.
BuildStarted(registry, chainName) ==
  [chainName |-> chainName, awaiting |-> "getAddress",
   verifyingContract |-> registry[chainName].usdc]

\* createEVMPayment after the signature: the payload's token is read from
\* the chain's entry.
BuildResult(registry, build) ==
  Resolved([verifyingContract |-> build.verifyingContract,
            token |-> registry[build.chainName].usdc])

\* config.rpcOverrides and config.customChains, as pages pass them: none,
\* for base, for a chain the registry does not have.
RpcOverrides ==
  {<<>>, [base |-> "https://rpc.example/base"], [mychain |-> "https://rpc.example/my"]}

CustomChains == {<<>>, [base |-> "0xc0ffee"], [mychain |-> "0xc0ffee"]}

Configs == [rpcOverrides : RpcOverrides, customChains : CustomChains]

InitRegistry ==
  /\ fn = "" /\ args = <<>> /\ ret = Undefined /\ NoEnvelope /\ NoAdapter /\ NoClock
  /\ chains = RegistryAtLoad
  /\ ethereum = Undefined

\* new X402Client(config), on any turn of the event loop.
Construct ==
  \E config \in Configs :
    /\ fn' = "constructor"
    /\ args' = <<config>>
    /\ chains' = X402ClientConstructor(chains, config)
    /\ UNCHANGED <<ret, header, wire, adapter, calls, clock, ethereum>>

\* createPayment is called on a connected client.
BeginPayment ==
  /\ wire = Undefined
  /\ fn' = "createPayment"
  /\ args' = <<>>
  /\ ret' = Undefined
  /\ wire' = BuildStarted(chains, "base")
  /\ UNCHANGED <<header, adapter, calls, clock, chains, ethereum>>

\* signer.getAddress() resolves; the signature is requested.
AddressKnown ==
  /\ wire # Undefined /\ wire.awaiting = "getAddress"
  /\ wire' = [wire EXCEPT !.awaiting = "signTypedData"]
  /\ UNCHANGED <<fn, args, ret, header, adapter, calls, clock, chains, ethereum>>

\* signer.signTypedData() resolves; createPayment returns.
PaymentBuilt ==
  /\ wire # Undefined /\ wire.awaiting = "signTypedData"
  /\ ret' = BuildResult(chains, wire)
  /\ wire' = Undefined
  /\ UNCHANGED <<fn, args, header, adapter, calls, clock, chains, ethereum>>

NextRegistry == Construct \/ BeginPayment \/ AddressKnown \/ PaymentBuilt

SpecRegistry == InitRegistry /\ [][NextRegistry]_vars

\* C21: the registry changes only in a step of the X402Client
\* constructor, and never while a payment build is in flight.
C21_RegistryWrites ==
  [][chains' # chains => (fn' = "constructor" /\ wire = Undefined)]_vars

----------------------------------------------------------------------------
(* BorshSerializer (providers/near/index.ts).  Unsigned values of up to
   128 bits are given as their 16-bit limbs, least significant first;
   wire holds the serializer's buffer.                                    *)

Limb == 65536

\* ToInt32 of a number below 2^32, given by its two limbs.
ToInt32(value) ==
  IF value[2] >= 32768 THEN (value[2] - Limb) * Limb + value[1] ELSE value[2] * Limb + value[1]

\* x >> n and x & 0xff on 32-bit integers.
shr(x, n) == x \div (2 ^ n)
lowByte(x) == x % 256

\* writeU32 with the bytes in network order.
writeU32BigEndian(buffer, value) ==
  LET v == ToInt32(value)
  IN buffer \o <<lowByte(shr(v, 24)), lowByte(shr(v, 16)), lowByte(shr(v, 8)), lowByte(v)>>

writeU8(buffer, value) == Append(buffer, lowByte(value))

writeU32(buffer, value) ==
  LET v == ToInt32(value)
  IN buffer \o <<lowByte(v), lowByte(shr(v, 8)), lowByte(shr(v, 16)), lowByte(shr(v, 24))>>

\* Number((val >> BigInt(i * 8)) & BigInt(0xff)) of a BigInt given by its
\* limbs.
BigIntByte(val, i) ==
  LET limb == IF (i \div 2) + 1 <= Len(val) THEN val[(i \div 2) + 1] ELSE 0
  IN (limb \div (IF i % 2 = 0 THEN 1 ELSE 256)) % 256

writeU64(buffer, value) == buffer \o [i \in 1..8 |-> BigIntByte(value, i - 1)]

writeU128(buffer, value) == buffer \o [i \in 1..16 |-> BigIntByte(value, i - 1)]

\* The UTF-8 bytes of a code point.
utf8OfCodePoint(cp) ==
  IF cp < 128 THEN <<cp>>
  ELSE IF cp < 2048 THEN <<192 + (cp \div 64), 128 + (cp % 64)>>
  ELSE IF cp < 65536 THEN <<224 + (cp \div 4096), 128 + ((cp \div 64) % 64), 128 + (cp % 64)>>
  ELSE <<240 + (cp \div 262144), 128 + ((cp \div 4096) % 64), 128 + ((cp \div 64) % 64),
         128 + (cp % 64)>>

\* new TextEncoder().encode(s), from code unit i on: a surrogate pair is
\* one code point, a lone surrogate is U+FFFD.
RECURSIVE TextEncode(_, _)
TextEncode(s, i) ==
  IF i > Len(s) THEN <<>>
  ELSE IF isHighSurrogate(s[i]) /\ i < Len(s) /\ isLowSurrogate(s[i + 1])
       THEN utf8OfCodePoint(65536 + (s[i] - 55296) * 1024 + (s[i + 1] - 56320))
            \o TextEncode(s, i + 2)
  ELSE IF isHighSurrogate(s[i]) \/ isLowSurrogate(s[i])
       THEN utf8OfCodePoint(65533) \o TextEncode(s, i + 1)
  ELSE utf8OfCodePoint(s[i]) \o TextEncode(s, i + 1)

\* writeString with the length of the string in place of the length of
\* its encoding.
writeStringUnitLength(buffer, value) ==
  writeU32(buffer, <<Len(value), 0>>) \o TextEncode(value, 1)

writeString(buffer, value) ==
  LET encoded == TextEncode(value, 1)
  IN writeU32(buffer, <<Len(encoded), 0>>) \o encoded

\* ---- Sequences of writes ----

\* No more than MaxWrites writes to one serializer.
MaxWrites == 2

U8Values == {0, 1, 127, 255}
LimbValues == {0, 1, 255, 256, 32768, 65535}
U32Values == LimbValues \X LimbValues
U64Values == {<<0, 0, 0, 0>>, <<1, 0, 0, 0>>, <<65535, 65535, 65535, 65535>>,
              <<513, 1027, 1541, 2055>>, <<0, 0, 0, 32768>>}
U128Values == {<<0, 0, 0, 0, 0, 0, 0, 0>>, <<16960, 15, 0, 0, 0, 0, 0, 0>>,
               <<513, 1027, 1541, 2055, 2569, 3083, 3597, 4111>>,
               <<65535, 65535, 65535, 65535, 65535, 65535, 65535, 65535>>}
StringValues == {<<>>, U("ft_transfer"), <<233>>, <<97, 8364>>, <<55357, 56832>>, <<55357>>}

\* The number of writes made so far is kept in calls.
InitBorsh ==
  /\ fn = "" /\ args = <<>> /\ ret = Undefined /\ header = Undefined
  /\ wire = <<>>
  /\ NoAdapter /\ NoClock /\ NoWindow

Writes(name, value, buffer) ==
  /\ fn' = name
  /\ args' = <<value>>
  /\ wire' = buffer
  /\ calls' = Append(calls, name)
  /\ UNCHANGED <<ret, header, adapter, clock, chains, ethereum>>

WriteU8 ==
  /\ Len(calls) < MaxWrites
  /\ \E value \in U8Values : Writes("writeU8", value, writeU8(wire, value))

WriteU32 ==
  /\ Len(calls) < MaxWrites
  /\ \E value \in U32Values : Writes("writeU32", value, writeU32(wire, value))

WriteU64 ==
  /\ Len(calls) < MaxWrites
  /\ \E value \in U64Values : Writes("writeU64", value, writeU64(wire, value))

WriteU128 ==
  /\ Len(calls) < MaxWrites
  /\ \E value \in U128Values : Writes("writeU128", value, writeU128(wire, value))

WriteString ==
  /\ Len(calls) < MaxWrites
  /\ \E value \in StringValues : Writes("writeString", value, writeString(wire, value))

NextBorsh == WriteU8 \/ WriteU32 \/ WriteU64 \/ WriteU128 \/ WriteString

SpecBorsh == InitBorsh /\ [][NextBorsh]_vars

\* ---- Properties of the serializer ----

\* bytes is the little-endian encoding, in Len(bytes) bytes, of the value
\* with the limbs given: each pair of bytes makes up one limb.
IsLittleEndian(bytes, limbs) ==
  /\ Len(bytes) = 2 * Len(limbs)
  /\ \A k \in 1..Len(limbs) :
       /\ bytes[2 * k - 1] \in 0..255 /\ bytes[2 * k] \in 0..255
       /\ bytes[2 * k - 1] + 256 * bytes[2 * k] = limbs[k]

\* bytes is the Borsh encoding of the value written by the method named.
IsBorshOf(bytes, name, value) ==
  CASE name = "writeU8" -> bytes = <<value>>
    [] name = "writeU32" -> Len(bytes) = 4 /\ IsLittleEndian(bytes, value)
    [] name = "writeU64" -> Len(bytes) = 8 /\ IsLittleEndian(bytes, value)
    [] name = "writeU128" -> Len(bytes) = 16 /\ IsLittleEndian(bytes, value)
    [] name = "writeString" ->
         LET utf8 == TextEncode(value, 1)
         IN /\ Len(bytes) = 4 + Len(utf8)
            /\ IsLittleEndian(SubSeq(bytes, 1, 4), <<Len(utf8), 0>>)
            /\ SubSeq(bytes, 5, Len(bytes)) = utf8

\* C22: every write appends to the buffer exactly the encoding of its
\* value: 1, 4, 8 or 16 bytes in little-endian order, or the UTF-8 bytes
\* of a string after their number in 4 little-endian bytes; what was in
\* the buffer stays in front.
C22_BorshAppends ==
  [][/\ Len(wire') >= Len(wire)
     /\ SubSeq(wire', 1, Len(wire)) = wire
     /\ IsBorshOf(SubSeq(wire', Len(wire) + 1, Len(wire')), fn', args'[1])]_vars

C22_Witness ==
  /\ calls = <<"writeString", "writeU32">>
  /\ args = <<<<0, 65535>>>>
  /\ wire = <<4, 0, 0, 0, 97, 226, 130, 172, 0, 0, 255, 255>>

\* ---- The instructions of the SVM builder ----

C23_WitnessCreate ==
  /\ SVMPaid
  /\ calls[1].answer = Null
  /\ ret.v.transaction.message.instructions[3].payer = Str(svmAccount)

\* ---- The authorization entry of the Stellar builder ----

\* StellarProvider.signPayment has returned a payload.
StellarPaid == fn = "signPayment" /\ adapter.kind = "stellar" /\ ret.t = "resolved"

\* C24: in every payload of StellarProvider.signPayment the nonce, the
\* signatureExpirationLedger and the invocation of the signed entry, and
\* the nonce and signatureExpirationLedger the payload reports, are those
\* of the preimage given to the wallet, and signatureExpirationLedger is
\* the ledger sequence fetched plus 60.
C24_EntryMatchesPreimage ==
  StellarPaid =>
    LET preimage == calls[2].preimage
        entry == ret.v.authorizationEntryXdr
    IN /\ entry.credentials.nonce = preimage.nonce
       /\ entry.credentials.signatureExpirationLedger = preimage.signatureExpirationLedger
       /\ entry.rootInvocation = preimage.invocation
       /\ ret.v.nonce = preimage.nonce
       /\ ret.v.signatureExpirationLedger = preimage.signatureExpirationLedger
       /\ preimage.signatureExpirationLedger = calls[1].answer + 60

C24_Witness ==
  /\ StellarPaid
  /\ calls[1].answer = 54000000
  /\ ret.v.signatureExpirationLedger = 54000060
  /\ ret.v.nonce = 90071992
  /\ ret.v.authorizationEntryXdr.rootInvocation.args[3] = 10000000

---------------------------------------------------------------------------
(* The connection state of the EVM signing objects and the page's wallet.

   ethereum is window.ethereum: the accounts the wallet gives the page
   (the selected one first), the chain it is on, and whether the object's
   accountsChanged and chainChanged listeners are registered with it.      *)

evmOtherAccount == U("0x4444444444444444444444444444444444444444")

\* chains: getChainById, the first chain of SUPPORTED_CHAINS with the id.
getChainById(chainId) ==
  IF \E i \in 1..Len(SUPPORTED_CHAINS) : SUPPORTED_CHAINS[i][2].chainId = chainId
  THEN SUPPORTED_CHAINS[CHOOSE i \in 1..Len(SUPPORTED_CHAINS) :
                          /\ SUPPORTED_CHAINS[i][2].chainId = chainId
                          /\ \A j \in 1..(i - 1) : SUPPORTED_CHAINS[j][2].chainId # chainId][2]
  ELSE Undefined

\* EVMProvider.switchChain
EVMswitchChain(self, chainName, env) ==
  LET chain == getChainByName(chainName)
  IN IF chain = Undefined THEN Done(self, X402Error("CHAIN_NOT_SUPPORTED"), <<>>)
     ELSE IF ~self.provider THEN Done(self, X402Error("WALLET_NOT_CONNECTED"), <<>>)
     ELSE IF env.wallet # "ok"
          THEN Done(self, X402Error("CHAIN_SWITCH_REJECTED"),
                    <<Wallet("wallet_switchEthereumChain")>>)
     ELSE Done([self EXCEPT !.chainName = Str(chain.name)], Resolved(Undefined),
               <<Wallet("wallet_switchEthereumChain")>>)

\* X402Client.switchChain and switchEVMChain
X402switchChain(self, chainName, env) ==
  LET chain == getChainByName(chainName)
  IN IF chain = Undefined THEN Done(self, X402Error("CHAIN_NOT_SUPPORTED"), <<>>)
     ELSE IF chain.networkType # evm THEN Done(self, X402Error("CHAIN_NOT_SUPPORTED"), <<>>)
     ELSE IF ~self.provider THEN Done(self, X402Error("WALLET_NOT_CONNECTED"), <<>>)
     ELSE IF env.wallet # "ok"
          THEN Done(self, X402Error("CHAIN_SWITCH_REJECTED"),
                    <<Wallet("wallet_switchEthereumChain")>>)
     ELSE Done([self EXCEPT !.currentChainName = Str(chain.name)], Resolved(Undefined),
               <<Wallet("wallet_switchEthereumChain")>> \o emit("chainChanged", {}).issued)

\* EVMProvider.setupEventListeners, handleAccountsChanged: the signer is
\* left as it is.
EVMhandleAccountsChanged(self, accounts) ==
  IF accounts = <<>> THEN Done(disconnect(self), Undefined, <<>>)
  ELSE IF Str(accounts[1]) # self.address
       THEN Done([self EXCEPT !.address = Str(accounts[1])], Undefined, <<>>)
  ELSE Done(self, Undefined, <<>>)

\* EVMProvider.setupEventListeners, handleChainChanged
EVMhandleChainChanged(self, chainId) ==
  LET chain == getChainById(chainId)
  IN IF chain # Undefined
     THEN Done([self EXCEPT !.chainName = Str(chain.name)], Undefined, <<>>)
     ELSE Done(self, Undefined, <<>>)

\* X402Client.setupEVMEventListeners, the accountsChanged listener
X402handleAccountsChanged(self, accounts) ==
  IF accounts = <<>>
  THEN Done(X402disconnect(self), Undefined, emit("disconnect", {}).issued)
  ELSE IF Str(accounts[1]) # self.connectedAddress
       THEN Done([self EXCEPT !.connectedAddress = Str(accounts[1])], Undefined,
                 emit("accountChanged", {}).issued)
  ELSE Done(self, Undefined, <<>>)

\* X402Client.setupEVMEventListeners, the chainChanged listener
X402handleChainChanged(self, chainId) ==
  LET chain == getChainById(chainId)
  IN IF chain # Undefined
     THEN Done([self EXCEPT !.currentChainName = Str(chain.name)], Undefined,
               emit("chainChanged", {}).issued)
     ELSE Done(self, Undefined, <<>>)

\* X402Client.isConnected, getState().connected
isConnected(self) == self.connectedAddress # Null

\* ---- The objects, the wallet and the page ----

\* What the wallet can give the page: no account (locked, or the page's
\* permission withdrawn) or the selected account.
WalletAccounts == {<<>>, <<evmAccount>>, <<evmOtherAccount>>}

\* The chains the wallet can be on; the last one is not in the registry.
WalletChainIds == {8453, 43114, 31337}

\* What happens during connect: the wallet's answer to eth_requestAccounts,
\* and whether the chain switch ("fail") or getSigner ("signer") fails.
WalletConnectEnvs == [wallet : {"ok", "reject", "fail"}, next : {"ok", "fail", "signer"}]

WalletPaymentInfos ==
  [recipient : {Str(evmMerchant)}, amount : {Str(U("10.00")), Str(U("abc"))},
   facilitator : {Undefined}]

\* The events whose handler throws, per call of createPayment.
ThrowingHandlers ==
  {{}, {"paymentStarted"}, {"paymentSigned", "paymentCompleted"}, {"paymentFailed"}}

InitWallet ==
  /\ fn = "" /\ args = <<>> /\ ret = Undefined /\ calls = <<>>
  /\ adapter \in {EVMProvider, X402Client}
  /\ NoEnvelope
  /\ clock = StartTime
  /\ chains = <<>>
  /\ ethereum = [accounts |-> <<>>, chainId |-> 8453, on |-> FALSE]

\* A call of the object that leaves the wallet as it was.
WalletCall(name, arguments, out) ==
  /\ fn' = name
  /\ args' = arguments
  /\ ret' = out.ret
  /\ calls' = out.calls
  /\ UNCHANGED <<header, wire, clock, chains>>

\* connect(chainName).  The user approves the accounts asked for where the
\* page has none yet; a chain switch that succeeds moves the wallet; the
\* client registers its listeners at the end of a connect that succeeds.
WalletConnect ==
  \E chainName \in {Undefined, Str(U("avalanche"))},
     accounts \in WalletAccounts \ {<<>>},
     env \in WalletConnectEnvs :
    LET out == IF adapter.kind = "evm" THEN EVMconnect(adapter, chainName, accounts, env)
               ELSE X402connect(adapter, chainName, accounts, env)
        chain == getChainByName(IF Truthy(chainName) THEN chainName.v ELSE DEFAULT_CHAIN)
    IN /\ ethereum.accounts # <<>> => accounts = ethereum.accounts
       /\ adapter' = out.self
       /\ ethereum' =
            [accounts |-> IF env.wallet = "ok" THEN accounts ELSE ethereum.accounts,
             chainId |-> IF env.wallet = "ok" /\ env.next # "fail" THEN chain.chainId
                         ELSE ethereum.chainId,
             on |-> ethereum.on \/ (adapter.kind = "client" /\ out.ret.t = "resolved")]
       /\ WalletCall("connect", <<chainName>>, out)

\* disconnect()
WalletDisconnect ==
  /\ adapter' = IF adapter.kind = "evm" THEN disconnect(adapter) ELSE X402disconnect(adapter)
  /\ UNCHANGED ethereum
  /\ WalletCall("disconnect", <<>>,
                Out(Resolved(Undefined),
                    IF adapter.kind = "client" THEN emit("disconnect", {}).issued ELSE <<>>))

\* switchChain(chainName)
WalletSwitchChain ==
  \E chainName \in {U("base"), U("avalanche")}, env \in [wallet : {"ok", "reject"}] :
    LET out == IF adapter.kind = "evm" THEN EVMswitchChain(adapter, chainName, env)
               ELSE X402switchChain(adapter, chainName, env)
    IN /\ adapter' = out.self
       /\ ethereum' = [ethereum EXCEPT !.chainId = IF out.ret.t = "resolved"
                                                   THEN getChainByName(chainName).chainId
                                                   ELSE @]
       /\ WalletCall("switchChain", <<Str(chainName)>>, out)

\* The page calls EVMProvider.setupEventListeners().
SetupEventListeners ==
  /\ adapter.kind = "evm"
  /\ ~ethereum.on
  /\ ethereum' = [ethereum EXCEPT !.on = TRUE]
  /\ UNCHANGED adapter
  /\ WalletCall("setupEventListeners", <<>>, Out(Resolved(Undefined), <<>>))

\* The user selects another account in the wallet, locks it or withdraws
\* the page's permission; the wallet notifies the listeners, if any.
AccountsChanged ==
  \E accounts \in WalletAccounts \ {ethereum.accounts} :
    LET out == IF ~ethereum.on THEN Done(adapter, Undefined, <<>>)
               ELSE IF adapter.kind = "evm" THEN EVMhandleAccountsChanged(adapter, accounts)
               ELSE X402handleAccountsChanged(adapter, accounts)
    IN /\ ethereum' = [ethereum EXCEPT !.accounts = accounts]
       /\ adapter' = out.self
       /\ WalletCall("accountsChanged", <<accounts>>, out)

\* The user moves the wallet to another chain.
ChainChanged ==
  \E chainId \in WalletChainIds \ {ethereum.chainId} :
    LET out == IF ~ethereum.on THEN Done(adapter, Undefined, <<>>)
               ELSE IF adapter.kind = "evm" THEN EVMhandleChainChanged(adapter, chainId)
               ELSE X402handleChainChanged(adapter, chainId)
    IN /\ ethereum' = [ethereum EXCEPT !.chainId = chainId]
       /\ adapter' = out.self
       /\ WalletCall("chainChanged", <<chainId>>, out)

\* EVMProvider.signPayment(paymentInfo, chainConfig)
WalletSignPayment ==
  /\ adapter.kind = "evm"
  /\ \E paymentInfo \in WalletPaymentInfos, env \in SignEnvs({0}, {"ok"}) :
       /\ UNCHANGED <<adapter, ethereum>>
       /\ WalletCall("signPayment", <<paymentInfo, avalancheChain>>,
                     EVMsignPayment(adapter, paymentInfo, avalancheChain, clock, env))

\* X402Client.createPayment(paymentInfo)
WalletCreatePayment ==
  /\ adapter.kind = "client"
  /\ \E paymentInfo \in WalletPaymentInfos, env \in SignEnvs({0}, {"ok"}),
        throwing \in ThrowingHandlers :
       /\ UNCHANGED <<adapter, ethereum>>
       /\ WalletCall("createPayment", <<paymentInfo, throwing>>,
                     X402createPayment(adapter, paymentInfo, clock, env, throwing))

NextWallet ==
  \/ WalletConnect \/ WalletDisconnect \/ WalletSwitchChain \/ SetupEventListeners
  \/ AccountsChanged \/ ChainChanged
  \/ WalletSignPayment \/ WalletCreatePayment

SpecWallet == InitWallet /\ [][NextWallet]_vars

\* ---- Properties of the connection state ----

\* The wallet requests among the calls issued.
SignRequests == {i \in 1..Len(calls) : "account" \in DOMAIN calls[i]}

\* C25: in every payload produced by an EVM signing path, authorization.from
\* is the address of the account whose key produced the signature, after
\* any sequence of connect, disconnect, switchChain and wallet
\* accountsChanged/chainChanged notifications before the call.
C25_FromIsSigningAccount ==
  (fn \in {"signPayment", "createPayment"} /\ IsAuthorization(ret))
    => \A i \in SignRequests : ret.v.from = calls[i].account

\* C26: after any sequence of connect, disconnect, switchChain and wallet
\* notifications on an X402Client, isConnected() is true only if a signer
\* and a current chain name are both set, so that a createPayment issued
\* while isConnected() is true never fails with WALLET_NOT_CONNECTED or
\* "Chain not set" (the CHAIN_NOT_SUPPORTED thrown before paymentStarted).
C26_ConnectedHasSignerAndChain ==
  (adapter.kind = "client" /\ isConnected(adapter))
    => /\ Truthy(adapter.signer) /\ Truthy(adapter.currentChainName)
       /\ (fn = "createPayment"
             => /\ ret # X402Error("WALLET_NOT_CONNECTED")
                /\ ~(ret = X402Error("CHAIN_NOT_SUPPORTED") /\ calls = <<>>))

\* The events the last call emitted, in order.
EventsEmitted ==
  LET emitted == SelectSeq(calls, LAMBDA c : "event" \in DOMAIN c)
  IN [i \in 1..Len(emitted) |-> emitted[i].event]

\* The last call was a createPayment that got past the checks of the
\* connection and the chain.
PaymentAttempted ==
  /\ fn = "createPayment"
  /\ Truthy(adapter.connectedAddress)
  /\ Truthy(adapter.currentChainName)
  /\ getChainByName(adapter.currentChainName.v) # Undefined

\* C27: every X402Client.createPayment call that passes the connection and
\* chain checks emits exactly one paymentStarted first and exactly one
\* terminal event after it: paymentCompleted, preceded by exactly one
\* paymentSigned, if the call resolves, or paymentFailed if it rejects;
\* never both and never neither, even when an event handler throws.
C27_OneTerminalEvent ==
  PaymentAttempted
    => EventsEmitted = (IF ret.t = "resolved"
                        THEN <<"paymentStarted", "paymentSigned", "paymentCompleted">>
                        ELSE <<"paymentStarted", "paymentFailed">>)

C27_Witness ==
  /\ PaymentAttempted
  /\ args[2] = {"paymentSigned", "paymentCompleted"}
  /\ ret.t = "resolved"
  /\ EventsEmitted = <<"paymentStarted", "paymentSigned", "paymentCompleted">>

\* A payment rejected by the wallet while the paymentFailed handler throws.
C27_WitnessFailed ==
  /\ PaymentAttempted
  /\ args[2] = {"paymentFailed"}
  /\ ret = X402Error("SIGNATURE_REJECTED")
  /\ EventsEmitted = <<"paymentStarted", "paymentFailed">>

----------------------------------------------------------------------------
(* backend: the middleware made by createPaymentMiddleware.  A request is
   a process: the middleware runs up to await client.verify, the
   facilitator answers, the middleware runs to its end.  wire holds the
   request being verified; calls what the middleware did for the request:
   the response it sent, the requests to the facilitator, the call of
   next().                                                                *)

isValidKey == U("isValid")

\* buildPaymentRequirements, as far as the middleware depends on it: the
\* chain is looked up and an unknown one throws; the amount's conversion
\* throws nothing and is left out.
buildPaymentRequirements(options) ==
  LET chainName == IF options.chainName = Undefined THEN U("base") ELSE options.chainName.v
      chain == getChainByName(chainName)
  IN IF chain = Undefined THEN Throw("Error")
     ELSE Obj(<< <<schemeKey, Str(exact)>>, <<networkKey, Str(chainName)>> >>)

\* create402Response
create402Response(requirements) ==
  LET reqs == buildPaymentRequirements(requirements)
  IN IF IsThrow(reqs) THEN reqs ELSE [t |-> "response", status |-> 402, body |-> reqs]

\* res.status(code).json(body), and next().
Sent(status) == [to |-> "res", status |-> status]
NextCalled == [to |-> "next"]

\* FacilitatorClient.verify, given what the facilitator does (status 0: no
\* response, fetch rejects or is aborted): the parsed body of a response
\* that is ok, isValid: false for anything else.
verify(answer) ==
  LET invalid == Obj(<< <<isValidKey, Bool(FALSE)>> >>)
      parsed == JSONparse(answer.body)
  IN IF answer.status = 0 THEN invalid
     ELSE IF answer.status \notin 200..299 THEN invalid
     ELSE IF IsThrow(parsed) THEN invalid
     ELSE parsed

\* verifyResult.isValid
isValidOf(verifyResult) ==
  IF verifyResult.t \in {"null", "undefined"} THEN Throw("TypeError")
  ELSE Field(verifyResult, isValidKey)

\* The middleware up to await client.verify.
middlewareStart(headers, reqOptions) ==
  LET payment == extractPaymentFromHeaders(headers)
      response == create402Response(reqOptions)
      requirements == buildPaymentRequirements(reqOptions)
  IN IF ~Truthy(payment)
     THEN IF IsThrow(response) THEN [ret |-> response, calls |-> <<>>, wire |-> Undefined]
          ELSE [ret |-> Resolved(Undefined), calls |-> <<Sent(response.status)>>,
                wire |-> Undefined]
     ELSE IF IsThrow(requirements)
          THEN [ret |-> requirements, calls |-> <<>>, wire |-> Undefined]
     ELSE [ret |-> Undefined, calls |-> <<Fetch("/verify")>>,
           wire |-> [awaiting |-> "verify", payment |-> payment]]

\* The middleware after await client.verify.
middlewareEnd(verifyResult) ==
  LET isValid == isValidOf(verifyResult)
  IN IF IsThrow(isValid) THEN Out(isValid, <<>>)
     ELSE IF ~Truthy(isValid) THEN Out(Resolved(Undefined), <<Sent(402)>>)
     ELSE Out(Resolved(Undefined), <<NextCalled>>)

\* What a route's getRequirements returns: the chain of the payment.
RequirementsOptions == [chainName : {Undefined, Str(U("avalanche")), Str(U("mychain"))}]

\* Requests with at most one payment header.
MiddlewareHeaders == {Obj(<<>>)} \cup {Obj(<<entry>>) : entry \in HeaderEntries}

\* What the facilitator does with a verify request.
FacilitatorAnswers ==
  {[status |-> 0, body |-> <<>>],
   [status |-> 500, body |-> U("Internal Server Error")],
   [status |-> 200, body |-> U("{\"isValid\":true}")],
   [status |-> 200, body |-> U("{\"isValid\":false,\"invalidReason\":\"expired\"}")],
   [status |-> 200, body |-> U("null")],
   [status |-> 200, body |-> U("<html>")]}

InitMiddleware ==
  /\ fn = "" /\ args = <<>> /\ ret = Undefined /\ calls = <<>>
  /\ adapter = FacilitatorClient([timeout |-> Undefined])
  /\ NoEnvelope
  /\ NoClock
  /\ NoWindow

\* A request reaches the middleware.
RequestArrives ==
  /\ wire = Undefined
  /\ \E headers \in MiddlewareHeaders, reqOptions \in RequirementsOptions :
       LET out == middlewareStart(headers, reqOptions)
       IN /\ fn' = "middleware"
          /\ args' = <<headers, reqOptions>>
          /\ ret' = out.ret
          /\ calls' = out.calls
          /\ wire' = out.wire
  /\ UNCHANGED <<header, adapter, clock, chains, ethereum>>

\* client.verify resolves and the middleware runs to its end.
VerifyReturns ==
  /\ wire # Undefined /\ wire.awaiting = "verify"
  /\ \E answer \in FacilitatorAnswers :
       LET verifyResult == verify(answer)
           out == middlewareEnd(verifyResult)
       IN /\ ret' = out.ret
          /\ calls' = <<Answered(Fetch("/verify"), verifyResult)>> \o out.calls
  /\ wire' = Undefined
  /\ UNCHANGED <<fn, args, header, adapter, clock, chains, ethereum>>

NextMiddleware == RequestArrives \/ VerifyReturns

SpecMiddleware == InitMiddleware /\ [][NextMiddleware]_vars

\* ---- Properties of the middleware ----

\* The middleware has run to its end for the last request.
MiddlewareDone == fn = "middleware" /\ wire = Undefined

Did(what) == \E i \in 1..Len(calls) : calls[i] = what

\* C28: for every request the middleware does exactly one of two things,
\* sends a 402 response or calls next(); it calls next() only when a
\* payment header was decoded and verify returned isValid = true; it never
\* asks the facilitator to settle.
C28_AnswersOrContinues ==
  MiddlewareDone
    => /\ Did(Sent(402)) # Did(NextCalled)
       /\ Did(NextCalled)
            => /\ Truthy(extractPaymentFromHeaders(args[1]))
               /\ \E i \in 1..Len(calls) :
                    /\ "answer" \in DOMAIN calls[i]
                    /\ Field(calls[i].answer, isValidKey) = Bool(TRUE)
       /\ \A i \in 1..Len(calls) : calls[i].to = "http" => calls[i].method = "/verify"

\* C29: if connect() rejects for any reason, the connection state of the
\* X402Client or EVMProvider (provider, signer, address, chain) is exactly
\* what it was before the call, and no connect or chainChanged event has
\* been emitted for it.
C29_RejectedConnectChangesNothing ==
  [][(fn' = "connect" /\ ret'.t # "resolved")
       => /\ adapter' = adapter
          /\ \A i \in 1..Len(calls') :
               "event" \in DOMAIN calls'[i] => calls'[i].event \notin {"connect", "chainChanged"}]_vars

\* ---- NEAR: the cached public key ----

\* C30: whenever NEARProvider.connect() resolves, the account's public key
\* has been cached, so that a signPayment issued afterwards with no
\* disconnect in between (the account id is still set) never fails with
\* WALLET_NOT_CONNECTED.
C30_ConnectCachesPublicKey ==
  (adapter.kind = "near" /\ Truthy(adapter.accountId))
    => /\ (fn = "connect" /\ ret.t = "resolved") => adapter.publicKey
       /\ fn = "signPayment" => ret # X402Error("WALLET_NOT_CONNECTED")

=============================================================================
